---------------------------- MODULE Spec2Model ----------------------------
(***************************************************************************)
(* Trusty: trust scoring and aggregation core.                             *)
(*                                                                         *)
(*   - ScoringService.calculateScore (scoring.service.ts), with the        *)
(*     JavaScript Number arithmetic of its weighted blend modelled as      *)
(*     IEEE-754 binary64 (round to nearest, ties to even);                 *)
(*   - TrustCheckerService.check (trust-checker.service.ts): the           *)
(*     localStorage aggregate cache, the six concurrent signal checks,     *)
(*     forkJoin and the placeholder substituted for a failed check.        *)
(***************************************************************************)
EXTENDS Integers, Sequences, FiniteSets, TLC

(***************************************************************************)
(* JavaScript Numbers.                                                     *)
(*                                                                         *)
(* Every Number that calculateScore computes from integer scores and       *)
(* weights in 0..100 is a non-negative binary64 value below 2^20 that is   *)
(* either 0 or at least 2^-17 (0.01/600), hence a multiple of 2^-69.  Such *)
(* a value is held exactly as an integer count of 2^-80 units, written as  *)
(* NLimbs limbs in base 2^20, least significant limb first; limb NLimbs is *)
(* the integer part.  Each arithmetic operation computes the exact result  *)
(* and then rounds it to 53 significant bits, ties to even, which is what  *)
(* the binary64 operation returns.                                         *)
(***************************************************************************)
LimbBits == 20
NLimbs == 5
MantissaBits == 53

\* 2^k for k in 0..30
Pow2(k) ==
    <<1, 2, 4, 8, 16, 32, 64, 128, 256, 512, 1024, 2048, 4096, 8192, 16384,
      32768, 65536, 131072, 262144, 524288, 1048576, 2097152, 4194304,
      8388608, 16777216, 33554432, 67108864, 134217728, 268435456,
      536870912, 1073741824>>[k + 1]

Base == Pow2(LimbBits)

\* number of bits of n: the least k with n < 2^k
BitLen(n) == CHOOSE k \in 0..30 : n < Pow2(k) /\ (k = 0 \/ Pow2(k - 1) <= n)

FromInt(n) == [i \in 1..NLimbs |-> IF i = NLimbs THEN n ELSE 0]

Zero == FromInt(0)

\* carry propagation; the top limb keeps whatever is left
Carry(L) ==
    LET s1 == L[1]
        s2 == L[2] + (s1 \div Base)
        s3 == L[3] + (s2 \div Base)
        s4 == L[4] + (s3 \div Base)
        s5 == L[5] + (s4 \div Base)
    IN  <<s1 % Base, s2 % Base, s3 % Base, s4 % Base, s5>>

AddExact(A, B) == Carry([i \in 1..NLimbs |-> A[i] + B[i]])

MulExact(A, s) == Carry([i \in 1..NLimbs |-> A[i] * s])

\* long division by a small positive integer: <<quotient limbs, remainder>>
DivExact(L, d) ==
    LET c5 == L[5]
        c4 == (c5 % d) * Base + L[4]
        c3 == (c4 % d) * Base + L[3]
        c2 == (c3 % d) * Base + L[2]
        c1 == (c2 % d) * Base + L[1]
    IN  <<<<c1 \div d, c2 \div d, c3 \div d, c4 \div d, c5 \div d>>, c1 % d>>

RECURSIVE TopLimb(_, _)
TopLimb(L, i) == IF i = 0 THEN 0 ELSE IF L[i] # 0 THEN i ELSE TopLimb(L, i - 1)

\* number of significant bits of the 2^-80 count
SigBits(L) ==
    LET t == TopLimb(L, NLimbs)
    IN  IF t = 0 THEN 0 ELSE LimbBits * (t - 1) + BitLen(L[t])

Bit(L, j) == (L[(j \div LimbBits) + 1] \div Pow2(j % LimbBits)) % 2

LowBitsZero(L, j) ==
    /\ \A i \in 1..(j \div LimbBits) : L[i] = 0
    /\ L[(j \div LimbBits) + 1] % Pow2(j % LimbBits) = 0

Truncate(L, sh) ==
    [i \in 1..NLimbs |->
        IF i <= sh \div LimbBits THEN 0
        ELSE IF i = (sh \div LimbBits) + 1 THEN L[i] - (L[i] % Pow2(sh % LimbBits))
        ELSE L[i]]

\* round to nearest, ties to even; sticky = the exact value lies strictly
\* above the count L (a division left a remainder)
Round53(L, sticky) ==
    IF L = Zero THEN Zero
    ELSE LET sh == SigBits(L) - MantissaBits
         IN  IF sh <= 0 THEN L
             ELSE LET T == Truncate(L, sh)
                      guard == Bit(L, sh - 1) = 1
                      below == sticky \/ ~LowBitsZero(L, sh - 1)
                      odd == Bit(L, sh) = 1
                  IN  IF guard /\ (below \/ odd)
                      THEN Carry([i \in 1..NLimbs |->
                             IF i = (sh \div LimbBits) + 1
                             THEN T[i] + Pow2(sh % LimbBits) ELSE T[i]])
                      ELSE T

\* a + b
NumAdd(a, b) ==
    IF a = Zero THEN b ELSE IF b = Zero THEN a ELSE Round53(AddExact(a, b), FALSE)

\* a * s for an integer s >= 0
NumMulInt(a, s) ==
    IF a = Zero \/ s = 0 THEN Zero ELSE Round53(MulExact(a, s), FALSE)

\* a / d for an integer d > 0
NumDivInt(a, d) ==
    IF a = Zero THEN Zero
    ELSE LET qr == DivExact(a, d) IN Round53(qr[1], qr[2] # 0)

IntPart(a) == a[NLimbs]

IsIntegral(a) == \A i \in 1..(NLimbs - 1) : a[i] = 0

\* a <= n for an integer n >= 0
NumLeqInt(a, n) == IntPart(a) < n \/ (IntPart(a) = n /\ IsIntegral(a))

MathMin_max(a, n) == IF a = Zero \/ NumLeqInt(a, n) THEN FromInt(n) ELSE a

\* Math.min(a, n)
MathMin(a, n) == IF a = Zero \/ NumLeqInt(a, n) THEN a ELSE FromInt(n)

MathMaxZeroMinus_unclamped(a, n) == [a EXCEPT ![NLimbs] = a[NLimbs] - n]

\* Math.max(0, a - n): a - n is negative below n; from n on it is the exact
\* difference, rounded
MathMaxZeroMinus(a, n) ==
    IF a = Zero \/ IntPart(a) < n THEN Zero
    ELSE Round53([a EXCEPT ![NLimbs] = a[NLimbs] - n], FALSE)

\* Math.round(a): the nearest integer, a tie going up
MathRound(a) ==
    IF a[NLimbs - 1] >= Base \div 2 THEN IntPart(a) + 1 ELSE IntPart(a)


(***************************************************************************)
(* Data model (check-result.model.ts, trust-result.model.ts).              *)
(***************************************************************************)
CheckTypes == <<"safe-browsing", "whois", "ssl", "ipqs", "reviews", "heuristics">>

NumTypes == Len(CheckTypes)

\* details?: CheckDetails.  A details object is a record; `k in details' is
\* k \in DOMAIN details.  A CheckResult without details has Undefined.
Undefined == [undefined |-> TRUE]

\* the JavaScript null of a details field that holds a number otherwise
null == -1

\* ToNumber, as applied by the relational operators
ToNumber(v) == IF v = null THEN 0 ELSE v

CheckResult(t, st, sc, w, msg, d) ==
    [type |-> t, status |-> st, score |-> sc, weight |-> w, message |-> msg, details |-> d]

SafeBrowsingDetails(mal, phi) == [isMalware |-> mal, isPhishing |-> phi]

WhoisDetails(age, reg) == [domainAge |-> age, registrar |-> reg]

HeuristicsDetails(vat, susp) == [hasVatNumber |-> vat, suspiciousPayments |-> susp]

ReviewsDetails(total) == [rating |-> 4, totalReviews |-> total]

TRUST_THRESHOLDS_SAFE == 70
TRUST_THRESHOLDS_CAUTION == 40

getTrustLevel_exclusive(score) ==
    IF score > TRUST_THRESHOLDS_SAFE THEN "safe"
    ELSE IF score > TRUST_THRESHOLDS_CAUTION THEN "caution"
    ELSE "danger"

getTrustLevel(score) ==
    IF score >= TRUST_THRESHOLDS_SAFE THEN "safe"
    ELSE IF score >= TRUST_THRESHOLDS_CAUTION THEN "caution"
    ELSE "danger"

(***************************************************************************)
(* ScoringService (scoring.service.ts).                                    *)
(***************************************************************************)
isSafeBrowsingDetails(details) ==
    details # Undefined /\ "isMalware" \in DOMAIN details /\ "isPhishing" \in DOMAIN details

isWhoisDetails(details) ==
    details # Undefined /\ "domainAge" \in DOMAIN details /\ "registrar" \in DOMAIN details

isHeuristicsDetails(details) ==
    details # Undefined /\ "suspiciousPayments" \in DOMAIN details /\ "hasVatNumber" \in DOMAIN details

hasInsufficientReviews_ten(details) ==
    IF details = Undefined THEN TRUE
    ELSE \/ ("insufficientReviews" \in DOMAIN details /\ details.insufficientReviews = TRUE)
         \/ ("totalReviews" \in DOMAIN details /\ details.totalReviews < 10)

hasInsufficientReviews(details) ==
    IF details = Undefined THEN TRUE
    ELSE \/ ("insufficientReviews" \in DOMAIN details /\ details.insufficientReviews = TRUE)
         \/ ("totalReviews" \in DOMAIN details /\ details.totalReviews < 20)

\* checks.find((c) => c.type === t): the checks of type t, first one first
OfType(checks, t) == SelectSeq(checks, LAMBDA c : c.type = t)

Found(checks, t) == OfType(checks, t) # << >>

Find(checks, t) == OfType(checks, t)[1]

RECURSIVE weightedScore_inverted(_, _)
weightedScore_inverted(checks, i) ==
    IF i = 0 THEN Zero
    ELSE NumAdd(weightedScore_inverted(checks, i - 1),
                NumMulInt(NumDivInt(FromInt(checks[i].weight), 100), 100 - checks[i].score))

\* the loop of calculateScore: weightedScore after the first i checks
RECURSIVE weightedScore(_, _)
weightedScore(checks, i) ==
    IF i = 0 THEN Zero
    ELSE NumAdd(weightedScore(checks, i - 1),
                NumMulInt(NumDivInt(FromInt(checks[i].weight), 100), checks[i].score))

RECURSIVE totalWeight(_, _)
totalWeight(checks, i) ==
    IF i = 0 THEN 0 ELSE totalWeight(checks, i - 1) + checks[i].weight

\* let finalScore = totalWeight > 0 ? (weightedScore / totalWeight) * 100 : 50
blendScore(checks) ==
    LET tw == totalWeight(checks, Len(checks))
    IN  IF tw > 0
        THEN NumMulInt(NumDivInt(weightedScore(checks, Len(checks)), tw), 100)
        ELSE FromInt(50)

malwareOverride_malwareOnly(checks) ==
    /\ Found(checks, "safe-browsing")
    /\ isSafeBrowsingDetails(Find(checks, "safe-browsing").details)
    /\ Find(checks, "safe-browsing").details.isMalware

malwareOverride(checks) ==
    /\ Found(checks, "safe-browsing")
    /\ isSafeBrowsingDetails(Find(checks, "safe-browsing").details)
    /\ \/ Find(checks, "safe-browsing").details.isMalware
       \/ Find(checks, "safe-browsing").details.isPhishing

youngDomainCap_week(checks) ==
    /\ Found(checks, "whois")
    /\ isWhoisDetails(Find(checks, "whois").details)
    /\ ToNumber(Find(checks, "whois").details.domainAge) < 7

youngDomainCap(checks) ==
    /\ Found(checks, "whois")
    /\ isWhoisDetails(Find(checks, "whois").details)
    /\ ToNumber(Find(checks, "whois").details.domainAge) < 30

cryptoPenalty(checks) ==
    /\ Found(checks, "heuristics")
    /\ isHeuristicsDetails(Find(checks, "heuristics").details)
    /\ Find(checks, "heuristics").details.suspiciousPayments

insufficientReviewsCap(checks) ==
    /\ Found(checks, "reviews")
    /\ hasInsufficientReviews(Find(checks, "reviews").details)

statusOrder_safeFirst(st) ==
    CASE st = "danger" -> 3 [] st = "warning" -> 2 [] st = "unknown" -> 1 [] st = "safe" -> 0

statusOrder(st) ==
    CASE st = "danger" -> 0 [] st = "warning" -> 1 [] st = "unknown" -> 2 [] st = "safe" -> 3

priorityOrder_listOrder(t) ==
    CASE t = "safe-browsing" -> 1 [] t = "whois" -> 2 [] t = "ssl" -> 3
      [] t = "ipqs" -> 4 [] t = "reviews" -> 5 [] t = "heuristics" -> 6 [] OTHER -> 99

priorityOrder(t) ==
    CASE t = "safe-browsing" -> 1 [] t = "whois" -> 2 [] t = "ssl" -> 3
      [] t = "reviews" -> 4 [] t = "ipqs" -> 5 [] t = "heuristics" -> 6 [] OTHER -> 99

\* the comparator of generateBullets: a sorts strictly before b
bulletBefore(a, b) ==
    \/ statusOrder(a.status) < statusOrder(b.status)
    \/ /\ statusOrder(a.status) = statusOrder(b.status)
       /\ priorityOrder(a.type) < priorityOrder(b.type)

\* [...checks].sort(comparator): a stable insertion of each check in turn
RECURSIVE insertSorted(_, _)
insertSorted(sorted, c) ==
    IF sorted = << >> THEN <<c>>
    ELSE IF bulletBefore(c, sorted[1]) THEN <<c>> \o sorted
    ELSE <<sorted[1]>> \o insertSorted(Tail(sorted), c)

RECURSIVE sortedChecks(_, _)
sortedChecks(checks, i) ==
    IF i = 0 THEN << >> ELSE insertSorted(sortedChecks(checks, i - 1), checks[i])

getIconForStatus(st) ==
    CASE st = "safe" -> "check" [] st = "warning" -> "warning" [] st = "danger" -> "danger"
      [] OTHER -> "warning"

MaxBullets == 4

generateBullets(checks) ==
    LET s == sortedChecks(checks, Len(checks))
        top == SubSeq(s, 1, IF Len(s) < MaxBullets THEN Len(s) ELSE MaxBullets)
    IN  [i \in 1..Len(top) |-> [icon |-> getIconForStatus(top[i].status), text |-> top[i].message]]

\* new Date(): a Date object holding the clock reading
Date(clock) == [date |-> clock]

createResult(url, domain, score, checks, clock) ==
    [url |-> url, domain |-> domain, score |-> score, level |-> getTrustLevel(score),
     bullets |-> generateBullets(checks), details |-> checks, checkedAt |-> Date(clock)]

finalScore_penaltyFirst(checks) ==
    IF malwareOverride(checks) THEN 0
    ELSE LET f0 == blendScore(checks)
             f1 == IF cryptoPenalty(checks) THEN MathMaxZeroMinus(f0, 20) ELSE f0
             f2 == IF youngDomainCap(checks) THEN MathMin(f1, 50) ELSE f1
             f3 == IF insufficientReviewsCap(checks) THEN MathMin(f2, 60) ELSE f2
         IN  MathRound(f3)

\* the final score that calculateScore hands to createResult
finalScore(checks) ==
    IF malwareOverride(checks) THEN 0
    ELSE LET f0 == blendScore(checks)
             f1 == IF youngDomainCap(checks) THEN MathMin(f0, 50) ELSE f0
             f2 == IF cryptoPenalty(checks) THEN MathMaxZeroMinus(f1, 20) ELSE f1
             f3 == IF insufficientReviewsCap(checks) THEN MathMin(f2, 60) ELSE f2
         IN  MathRound(f3)

(***************************************************************************)
(* Strings are sequences of one-character strings.                         *)
(***************************************************************************)
UpperChars == <<"A", "B", "E", "F", "I", "K", "T", "W", "Y">>
LowerChars == <<"a", "b", "e", "f", "i", "k", "t", "w", "y">>

toLowerChar(c) ==
    IF \E i \in 1..Len(UpperChars) : UpperChars[i] = c
    THEN LowerChars[CHOOSE i \in 1..Len(UpperChars) : UpperChars[i] = c]
    ELSE c

toLowerCase(s) == [i \in 1..Len(s) |-> toLowerChar(s[i])]

startsWith(s, p) == Len(s) >= Len(p) /\ SubSeq(s, 1, Len(p)) = p

dropPrefix(s, p) == IF startsWith(s, p) THEN SubSeq(s, Len(p) + 1, Len(s)) ELSE s

RECURSIVE trimStart(_)
trimStart(s) == IF s # << >> /\ s[1] = " " THEN trimStart(Tail(s)) ELSE s

RECURSIVE trimEnd(_)
trimEnd(s) ==
    IF s # << >> /\ s[Len(s)] = " " THEN trimEnd(SubSeq(s, 1, Len(s) - 1)) ELSE s

trim(s) == trimEnd(trimStart(s))

\* s.split('/')[0]
RECURSIVE beforeSlash(_)
beforeSlash(s) ==
    IF s = << >> \/ s[1] = "/" THEN << >> ELSE <<s[1]>> \o beforeSlash(Tail(s))

contains(s, p) == \E i \in 0..(Len(s) - Len(p)) : SubSeq(s, i + 1, i + Len(p)) = p

HTTP == <<"h", "t", "t", "p", ":", "/", "/">>
HTTPS == <<"h", "t", "t", "p", "s", ":", "/", "/">>
WWW == <<"w", "w", "w", ".">>

\* new URL(s).hostname for an http(s) URL without port, credentials, query or
\* fragment: the text between the scheme and the first "/", lower-cased;
\* the constructor throws (ok = FALSE) when that text is empty or holds a
\* space
parseURL(s) ==
    LET rest == IF startsWith(s, HTTPS) THEN dropPrefix(s, HTTPS) ELSE dropPrefix(s, HTTP)
        host == beforeSlash(rest)
    IN  [ok |-> /\ (startsWith(s, HTTPS) \/ startsWith(s, HTTP))
                /\ host # << >>
                /\ \A i \in 1..Len(host) : host[i] # " ",
         hostname |-> toLowerCase(host)]

\* url.replace(/^(https?:\/\/)?(www\.)?/, '')
stripSchemeAndWww(url) ==
    dropPrefix(IF startsWith(url, HTTPS) THEN dropPrefix(url, HTTPS) ELSE dropPrefix(url, HTTP), WWW)

\* TrustCheckerService.normalizeUrl
normalizeUrl(url) ==
    LET normalized == trim(url)
    IN  IF ~startsWith(normalized, HTTP) /\ ~startsWith(normalized, HTTPS)
        THEN HTTPS \o normalized ELSE normalized

\* TrustCheckerService.extractDomain
extractDomain(url) ==
    IF parseURL(url).ok THEN dropPrefix(parseURL(url).hostname, WWW)
    ELSE beforeSlash(stripSchemeAndWww(url))

\* extractDomain of mock-data.ts, the one calculateScore uses
mockExtractDomain(url) ==
    LET normalizedUrl == normalizeUrl(url)
    IN  IF parseURL(normalizedUrl).ok THEN parseURL(normalizedUrl).hostname ELSE url

calculateScore(url, checks, clock) ==
    createResult(url, mockExtractDomain(url), finalScore(checks), checks, clock)

(***************************************************************************)
(* Signal results, as the checks build them.                               *)
(***************************************************************************)
\* TrustCheckerService.getWeightForType: weights[type] || 10
weightsTable(type) ==
    CASE type = "safe-browsing" -> 0 [] type = "whois" -> 10 [] type = "ssl" -> 10
      [] type = "ipqs" -> 30 [] type = "reviews" -> 40 [] type = "heuristics" -> 10

getWeightForType(type) == IF weightsTable(type) # 0 THEN weightsTable(type) ELSE 10

createErrorResult_noDetails(type) ==
    CheckResult(type, "unknown", 50, getWeightForType(type), "Verifica non disponibile", Undefined)

\* TrustCheckerService.createErrorResult
createErrorResult(type) ==
    CheckResult(type, "unknown", 50, getWeightForType(type),
                "Verifica non disponibile", [error |-> TRUE])

(***************************************************************************)
(* Inputs of calculateScore: a list holds at most one result per type, in  *)
(* the order of CheckTypes.  The candidates for each type are results the  *)
(* mock services, the API handlers and createErrorResult return.           *)
(***************************************************************************)
Absent == [type |-> "absent"]

SafeBrowsingInputs ==
    { CheckResult("safe-browsing", "safe", 100, 0, "Nessuna minaccia rilevata da Google",
                  SafeBrowsingDetails(FALSE, FALSE)),
      CheckResult("safe-browsing", "safe", 100, 25, "Nessuna minaccia rilevata",
                  SafeBrowsingDetails(FALSE, FALSE)),
      CheckResult("safe-browsing", "danger", 0, 0, "Minacce rilevate: malware",
                  SafeBrowsingDetails(TRUE, FALSE)),
      CheckResult("safe-browsing", "danger", 0, 25, "Attenzione: sito segnalato come pericoloso",
                  SafeBrowsingDetails(FALSE, TRUE)),
      createErrorResult("safe-browsing") }

WhoisInputs ==
    { CheckResult("whois", "danger", 20, 20, "Dominio molto recente", WhoisDetails(15, "Aruba")),
      CheckResult("whois", "danger", 10, 10, "Dominio creato da meno di 1 mese",
                  WhoisDetails(29, "Sconosciuto")),
      CheckResult("whois", "danger", 30, 10, "Dominio creato da meno di 3 mesi",
                  WhoisDetails(30, "Sconosciuto")),
      CheckResult("whois", "safe", 100, 10, "Dominio attivo da 10 anni",
                  WhoisDetails(3650, "Sconosciuto")),
      CheckResult("whois", "warning", 50, 10, "Data di creazione non disponibile",
                  WhoisDetails(null, "Sconosciuto")),
      createErrorResult("whois") }

SslInputs ==
    { CheckResult("ssl", "safe", 100, 10, "Certificato SSL valido", [isValid |-> TRUE]),
      CheckResult("ssl", "danger", 30, 20, "Certificato SSL scade tra 5 giorni",
                  [isValid |-> TRUE]),
      CheckResult("ssl", "danger", 0, 20, "Certificato SSL non valido o scaduto",
                  [isValid |-> FALSE]) }

IpqsInputs ==
    { CheckResult("ipqs", "safe", 95, 15, "Nessun rischio significativo", [fraudScore |-> 5]),
      CheckResult("ipqs", "danger", 30, 30, "Rischio alto rilevato", [riskScore |-> 80]),
      CheckResult("ipqs", "warning", 50, 30, "Verifica reputazione non disponibile",
                  [error |-> "API not configured"]) }

ReviewsInputs ==
    { CheckResult("reviews", "warning", 50, 20, "Poche recensioni disponibili", ReviewsDetails(5)),
      CheckResult("reviews", "safe", 84, 20, "Valutazione 4.2/5", ReviewsDetails(19)),
      CheckResult("reviews", "safe", 84, 20, "Valutazione 4.2/5", ReviewsDetails(20)),
      CheckResult("reviews", "warning", 50, 30, "Non ci sono abbastanza recensioni",
                  [totalReviews |-> 0, insufficientReviews |-> TRUE]),
      CheckResult("reviews", "safe", 100, 30, "Eccellente: 4.6/5 (180 recensioni)",
                  [totalReviews |-> 180, insufficientReviews |-> FALSE]),
      CheckResult("reviews", "safe", 75, 30, "Buono: 3.7/5", Undefined),
      createErrorResult("reviews") }

HeuristicsInputs ==
    { CheckResult("heuristics", "danger", 20, 10, "Solo pagamenti in criptovaluta",
                  HeuristicsDetails(FALSE, TRUE)),
      CheckResult("heuristics", "safe", 85, 10, "Dati aziendali presenti",
                  HeuristicsDetails(TRUE, FALSE)),
      CheckResult("heuristics", "safe", 95, 10, "Nessun pattern sospetto rilevato",
                  [tld |-> "it"]),
      createErrorResult("heuristics") }

Compact(slots) == SelectSeq(slots, LAMBDA c : c.type # "absent")

SampleUrl == <<"e", "b", "a", "y", ".", "i", "t">>

(***************************************************************************)
(* Mock services (services/mock).  Each reads the scenario of the URL and  *)
(* builds its result from it; of the details only the fields that the     *)
(* scoring and the orchestration read are kept.                            *)
(***************************************************************************)
MockScenario(words, mal, phi, age, ssl, fraud, rating10, count, vat, crypto) ==
    [pattern |-> words, safeBrowsing |-> SafeBrowsingDetails(mal, phi), domainAgeDays |-> age,
     sslValid |-> ssl, fraudScore |-> fraud, reviewRating10 |-> rating10,
     reviewCount |-> count, hasVat |-> vat, hasCryptoOnly |-> crypto]

\* reviewRating is held in tenths
MOCK_SCENARIOS ==
    << MockScenario({<<"a", "m", "a", "z", "o", "n">>,
                     <<"e", "b", "a", "y">>,
                     <<"z", "a", "l", "a", "n", "d", "o">>,
                     <<"m", "e", "d", "i", "a", "w", "o", "r", "l", "d">>,
                     <<"u", "n", "i", "e", "u", "r", "o">>},
                    FALSE, FALSE, 365 * 10, TRUE, 5, 42, 50000, TRUE, FALSE),
       MockScenario({<<"t", "e", "s", "t", "-", "s", "a", "f", "e">>},
                    FALSE, FALSE, 365 * 2, TRUE, 15, 40, 500, TRUE, FALSE),
       MockScenario({<<"t", "e", "s", "t", "-", "c", "a", "u", "t", "i", "o", "n">>},
                    FALSE, FALSE, 90, TRUE, 45, 30, 50, FALSE, FALSE),
       MockScenario({<<"t", "e", "s", "t", "-", "d", "a", "n", "g", "e", "r">>},
                    FALSE, FALSE, 15, FALSE, 80, 15, 10, FALSE, TRUE),
       MockScenario({<<"s", "c", "a", "m">>, <<"f", "a", "k", "e">>,
                     <<"t", "r", "u", "f", "f", "a">>, <<"p", "h", "i", "s", "h", "i", "n", "g">>},
                    TRUE, TRUE, 7, FALSE, 95, 10, 5, FALSE, TRUE) >>

\* scenario.pattern.test(url), the pattern being case-insensitive
patternTest(scenario, url) == \E w \in scenario.pattern : contains(toLowerCase(url), w)

\* the random scenario of an URL that matches no pattern: two of its draws
DefaultScenarios ==
    { MockScenario({}, FALSE, FALSE, 400, TRUE, 20, 45, 300, TRUE, FALSE),
      MockScenario({}, FALSE, FALSE, 30, FALSE, 59, 30, 10, FALSE, TRUE) }

\* getScenarioForUrl: the scenarios a call can return
getScenarioForUrl(url) ==
    IF \E k \in 1..Len(MOCK_SCENARIOS) : patternTest(MOCK_SCENARIOS[k], url)
    THEN {MOCK_SCENARIOS[CHOOSE k \in 1..Len(MOCK_SCENARIOS) :
              /\ patternTest(MOCK_SCENARIOS[k], url)
              /\ \A j \in 1..(k - 1) : ~patternTest(MOCK_SCENARIOS[j], url)]}
    ELSE DefaultScenarios

MockSafeBrowsingService(scenario) ==
    LET isMalware == scenario.safeBrowsing.isMalware
        isPhishing == scenario.safeBrowsing.isPhishing
    IN  CheckResult("safe-browsing",
                    IF ~isMalware /\ ~isPhishing THEN "safe" ELSE "danger",
                    IF isMalware \/ isPhishing THEN 0 ELSE 100,
                    25,
                    IF isMalware \/ isPhishing THEN "Attenzione: sito segnalato come pericoloso"
                    ELSE "Nessuna minaccia rilevata",
                    SafeBrowsingDetails(isMalware, isPhishing))

MockWhoisService(scenario) ==
    LET domainAgeDays == scenario.domainAgeDays
        years == domainAgeDays \div 365
        details == WhoisDetails(domainAgeDays, "Aruba S.p.A.")
    IN  IF domainAgeDays < 30
        THEN CheckResult("whois", "danger", 20, 20,
                         "Dominio molto recente (" \o ToString(domainAgeDays) \o " giorni)", details)
        ELSE IF domainAgeDays < 90
        THEN CheckResult("whois", "warning", 50, 20,
                         "Dominio recente (" \o ToString(domainAgeDays \div 30) \o " mesi)", details)
        ELSE IF domainAgeDays < 365
        THEN CheckResult("whois", "warning", 70, 20,
                         "Dominio da " \o ToString(domainAgeDays \div 30) \o " mesi", details)
        ELSE CheckResult("whois", "safe", IF 80 + years * 2 > 100 THEN 100 ELSE 80 + years * 2, 20,
                         "Dominio attivo da " \o ToString(years)
                             \o (IF years = 1 THEN " anno" ELSE " anni"), details)

\* daysUntilExpiry of a valid certificate is drawn from 30..329, so the
\* "in scadenza" branch is never taken
MockSslService(scenario) ==
    IF ~scenario.sslValid
    THEN CheckResult("ssl", "danger", 0, 10, "Certificato SSL non valido o assente",
                     [isValid |-> FALSE])
    ELSE CheckResult("ssl", "safe", 100, 10, "Certificato SSL valido", [isValid |-> TRUE])

MockIpqsService(scenario) ==
    LET fraudScore == scenario.fraudScore
        details == [fraudScore |-> fraudScore, recentAbuse |-> fraudScore > 60]
    IN  IF fraudScore > 75
        THEN CheckResult("ipqs", "danger", 20, 15, "Alto rischio di frode rilevato", details)
        ELSE IF fraudScore > 50
        THEN CheckResult("ipqs", "warning", 50, 15, "Rischio moderato rilevato", details)
        ELSE IF fraudScore > 25
        THEN CheckResult("ipqs", "warning", 70, 15, "Rischio basso rilevato", details)
        ELSE CheckResult("ipqs", "safe", 100 - fraudScore, 15, "Nessun rischio significativo", details)

\* `${rating}` for a rating of r10 tenths
ratingText(r10) ==
    IF r10 % 10 = 0 THEN ToString(r10 \div 10)
    ELSE ToString(r10 \div 10) \o "." \o ToString(r10 % 10)

\* MockReviewsService.formatReviewCount
formatReviewCount(count) ==
    IF count >= 1000 THEN ToString((2 * count + 1000) \div 2000) \o "k" ELSE ToString(count)

\* Math.round(rating * k) for a rating of r10 tenths
roundRatingTimes(r10, k) == (2 * r10 * k + 10) \div 20

MockReviewsService(scenario) ==
    LET rating10 == scenario.reviewRating10
        totalReviews == scenario.reviewCount
        details == [rating10 |-> rating10, totalReviews |-> totalReviews, source |-> "Trustpilot"]
    IN  IF totalReviews < 10
        THEN CheckResult("reviews", "warning", 50, 20, "Poche recensioni disponibili", details)
        ELSE IF rating10 >= 40
        THEN CheckResult("reviews", "safe",
                         IF roundRatingTimes(rating10, 20) > 100 THEN 100
                         ELSE roundRatingTimes(rating10, 20),
                         20, "Valutazione " \o ratingText(rating10) \o "/5 ("
                             \o formatReviewCount(totalReviews) \o " recensioni)", details)
        ELSE IF rating10 >= 30
        THEN CheckResult("reviews", "warning", roundRatingTimes(rating10, 15), 20,
                         "Valutazione " \o ratingText(rating10) \o "/5 ("
                             \o formatReviewCount(totalReviews) \o " recensioni)", details)
        ELSE IF rating10 >= 20
        THEN CheckResult("reviews", "warning", roundRatingTimes(rating10, 12), 20,
                         "Valutazione bassa: " \o ratingText(rating10) \o "/5", details)
        ELSE CheckResult("reviews", "danger", roundRatingTimes(rating10, 10), 20,
                         "Valutazione molto bassa: " \o ratingText(rating10) \o "/5", details)

\* getTld(domain): the text after the last "."
RECURSIVE getTld(_)
getTld(domain) ==
    IF \E i \in 1..Len(domain) : domain[i] = "." THEN getTld(Tail(domain)) ELSE domain

clamp(score) == IF score < 0 THEN 0 ELSE IF score > 100 THEN 100 ELSE score

\* the three Math.random() draws of MockHeuristicsService, compared with
\* their thresholds: all above, or all below
RandomDraws == {[privacy |-> b, terms |-> b, returns |-> b] : b \in BOOLEAN}

MockHeuristicsService(scenario, url, draws) ==
    LET tld == getTld(mockExtractDomain(url))
        hasVat == scenario.hasVat
        hasCryptoOnly == scenario.hasCryptoOnly
        hasPrivacyPolicy == ~hasCryptoOnly /\ draws.privacy
        hasTerms == ~hasCryptoOnly /\ draws.terms
        hasReturnPolicy == hasVat /\ draws.returns
        details == [hasVatNumber |-> hasVat, domainTld |-> tld,
                    hasPrivacyPolicy |-> hasPrivacyPolicy, hasTerms |-> hasTerms,
                    hasReturnPolicy |-> hasReturnPolicy, suspiciousPayments |-> hasCryptoOnly]
        score == 50
                 + (IF tld = <<"i", "t">> THEN 10
                    ELSE IF tld \in {<<"c", "o", "m">>, <<"e", "u">>, <<"n", "e", "t">>, <<"o", "r", "g">>}
                    THEN 5
                    ELSE IF tld \in {<<"r", "u">>, <<"c", "n">>, <<"t", "k">>, <<"m", "l">>}
                    THEN -20 ELSE 0)
                 + (IF hasVat THEN 15 ELSE 0)
                 + (IF hasPrivacyPolicy THEN 5 ELSE 0)
                 + (IF hasTerms THEN 5 ELSE 0)
                 + (IF hasReturnPolicy THEN 10 ELSE 0)
                 - (IF hasCryptoOnly THEN 30 ELSE 0)
    IN  IF hasCryptoOnly
        THEN CheckResult("heuristics", "danger", clamp(score), 10,
                         "Solo pagamenti in criptovaluta", details)
        ELSE IF ~hasVat /\ tld # <<"i", "t">>
        THEN CheckResult("heuristics", "warning", clamp(score), 10, "P.IVA non rilevata", details)
        ELSE IF hasVat /\ hasReturnPolicy
        THEN CheckResult("heuristics", "safe", clamp(score), 10, "Dati aziendali presenti", details)
        ELSE CheckResult("heuristics", "warning", clamp(score), 10,
                         "Verificare dati aziendali", details)

(***************************************************************************)
(* Real services (services/api): each posts the URL to its API handler     *)
(* and maps the response to response.result.  The handler's answer depends *)
(* on what its external collaborator reports about the site; a site is     *)
(* described by a profile.                                                 *)
(***************************************************************************)
SiteProfile(mal, phi, age, certValid, certDays, risk, rating10, total) ==
    [isMalware |-> mal, isPhishing |-> phi, ageDays |-> age, certValid |-> certValid,
     daysUntilExpiry |-> certDays,
     riskScore |-> risk, aggregatedRating10 |-> rating10, totalReviews |-> total]

CleanSite == SiteProfile(FALSE, FALSE, 3650, TRUE, 200, 0, 42, 180)

ScamSite == SiteProfile(FALSE, TRUE, 15, FALSE, -1, 90, 10, 3)

\* a site whose registration data carries no creation date
UndatedSite == SiteProfile(FALSE, FALSE, null, TRUE, 200, 0, 42, 180)

siteProfile(domain) ==
    IF contains(domain, <<"f", "a", "k", "e">>) THEN ScamSite
    ELSE IF contains(domain, <<"b", "i", "t">>) THEN UndatedSite
    ELSE CleanSite

\* api/safe-browsing.ts: the result built from the threat matches
safeBrowsingHandler(site) ==
    IF site.isMalware \/ site.isPhishing
    THEN CheckResult("safe-browsing", "danger", 0, 0,
                     "Minacce rilevate: "
                         \o (IF site.isPhishing THEN "phishing" ELSE "")
                         \o (IF site.isPhishing /\ site.isMalware THEN ", " ELSE "")
                         \o (IF site.isMalware THEN "malware" ELSE ""),
                     SafeBrowsingDetails(site.isMalware, site.isPhishing))
    ELSE CheckResult("safe-browsing", "safe", 100, 0, "Nessuna minaccia rilevata da Google",
                     SafeBrowsingDetails(FALSE, FALSE))

\* getScoreFromAge of the whois handler
getScoreFromAge(ageDays) ==
    IF ageDays < 30 THEN <<10, "danger", "Dominio creato da meno di 1 mese">>
    ELSE IF ageDays < 90 THEN <<30, "danger", "Dominio creato da meno di 3 mesi">>
    ELSE IF ageDays < 180 THEN <<50, "warning", "Dominio creato da meno di 6 mesi">>
    ELSE IF ageDays < 365 THEN <<70, "warning", "Dominio attivo da meno di 1 anno">>
    ELSE IF ageDays < 730 THEN <<85, "safe", "Dominio attivo da più di 1 anno">>
    ELSE <<100, "safe", "Dominio attivo da " \o ToString(ageDays \div 365) \o " anni">>

whoisHandler(site) ==
    LET s == getScoreFromAge(site.ageDays)
    IN  IF site.ageDays = null
        THEN CheckResult("whois", "warning", 50, 10, "Data di creazione non disponibile",
                         WhoisDetails(null, "Sconosciuto"))
        ELSE CheckResult("whois", s[2], s[1], 10, s[3],
                         WhoisDetails(site.ageDays, "Sconosciuto"))

\* getScoreFromCertificate of the ssl handler
getScoreFromCertificate(isValid, daysUntilExpiry) ==
    IF ~isValid THEN <<0, "danger", "Certificato SSL non valido o scaduto">>
    ELSE IF daysUntilExpiry < 0 THEN <<0, "danger", "Certificato SSL scaduto">>
    ELSE IF daysUntilExpiry < 7
    THEN <<30, "danger", "Certificato SSL scade tra " \o ToString(daysUntilExpiry) \o " giorni">>
    ELSE IF daysUntilExpiry < 30
    THEN <<60, "warning", "Certificato SSL scade tra " \o ToString(daysUntilExpiry) \o " giorni">>
    ELSE IF daysUntilExpiry < 90 THEN <<80, "safe", "Certificato SSL valido">>
    ELSE <<100, "safe", "Certificato SSL valido e sicuro">>

sslHandler(site) ==
    LET s == getScoreFromCertificate(site.certValid, site.daysUntilExpiry)
    IN  CheckResult("ssl", s[2], s[1], 20, s[3],
                    [isValid |-> site.certValid, daysUntilExpiry |-> site.daysUntilExpiry])

\* getScoreFromRiskScore of the reputation handler, for a site that the
\* provider flags neither as malware, phishing, parking nor suspicious
getScoreFromRiskScore(riskScore) ==
    IF riskScore >= 85 THEN <<10, "danger", "Rischio molto alto rilevato">>
    ELSE IF riskScore >= 75 THEN <<30, "danger", "Rischio alto rilevato">>
    ELSE IF riskScore >= 50 THEN <<50, "warning", "Alcuni elementi sospetti rilevati">>
    ELSE IF riskScore >= 25 THEN <<70, "warning", "Rischio basso rilevato">>
    ELSE <<100, "safe", "Nessun rischio significativo">>

ipqsHandler(site) ==
    LET s == getScoreFromRiskScore(site.riskScore)
    IN  CheckResult("ipqs", s[2], s[1], 30, s[3], [riskScore |-> site.riskScore])

MIN_REVIEWS_THRESHOLD == 20

REVIEWS_WEIGHT == 30

\* getReviewsWeight of the reviews handler with the dynamic weight
getReviewsWeight(totalReviews) ==
    IF totalReviews < 50 THEN 10 ELSE IF totalReviews <= 200 THEN 20 ELSE 30

\* getScoreFromAggregatedReviews, for fewer than 1000 reviews found on one
\* source
getScoreFromAggregatedReviews(rating10, totalReviews) ==
    LET reviewInfo == " (" \o ToString(totalReviews) \o " recensioni)"
    IN  IF totalReviews < MIN_REVIEWS_THRESHOLD
        THEN <<50, "warning", "Non ci sono abbastanza recensioni", TRUE>>
        ELSE IF rating10 >= 45
        THEN <<100, "safe", "Eccellente: " \o ratingText(rating10) \o "/5" \o reviewInfo, FALSE>>
        ELSE IF rating10 >= 40
        THEN <<90, "safe", "Molto buono: " \o ratingText(rating10) \o "/5" \o reviewInfo, FALSE>>
        ELSE IF rating10 >= 35
        THEN <<75, "safe", "Buono: " \o ratingText(rating10) \o "/5" \o reviewInfo, FALSE>>
        ELSE IF rating10 >= 30
        THEN <<60, "warning", "Nella media: " \o ratingText(rating10) \o "/5" \o reviewInfo, FALSE>>
        ELSE IF rating10 >= 20
        THEN <<35, "warning", "Valutazione bassa: " \o ratingText(rating10) \o "/5" \o reviewInfo,
               FALSE>>
        ELSE <<15, "danger", "Valutazione pessima: " \o ratingText(rating10) \o "/5" \o reviewInfo,
               FALSE>>

reviewsHandler(site) ==
    LET s == getScoreFromAggregatedReviews(site.aggregatedRating10, site.totalReviews)
    IN  CheckResult("reviews", s[2], s[1], REVIEWS_WEIGHT, s[3],
                    [aggregatedRating10 |-> site.aggregatedRating10,
                     totalReviews |-> site.totalReviews, insufficientReviews |-> s[4]])

\* the heuristics handler on a domain that no sub-check penalises
heuristicsHandler(domain) ==
    CheckResult("heuristics", "safe", 100, 10, "Nessun pattern sospetto rilevato",
                [domain |-> domain, tld |-> getTld(domain)])

(***************************************************************************)
(* The heuristics handler (api/heuristics.ts): lexical analysis of the     *)
(* domain name.  A domain is a sequence of one-character strings; a        *)
(* message is a sequence of text pieces, so that a message built from a    *)
(* template carries the brand or TLD it was built with.                    *)
(***************************************************************************)
\* KNOWN_BRANDS, in the order of the source
KNOWN_BRANDS ==
    <<
      <<"a", "m", "a", "z", "o", "n">>, <<"e", "b", "a", "y">>,
      <<"z", "a", "l", "a", "n", "d", "o">>,
      <<"a", "l", "i", "b", "a", "b", "a">>,
      <<"a", "l", "i", "e", "x", "p", "r", "e", "s", "s">>,
      <<"a", "p", "p", "l", "e">>,
      <<"m", "i", "c", "r", "o", "s", "o", "f", "t">>,
      <<"g", "o", "o", "g", "l", "e">>,
      <<"f", "a", "c", "e", "b", "o", "o", "k">>,
      <<"i", "n", "s", "t", "a", "g", "r", "a", "m">>,
      <<"p", "a", "y", "p", "a", "l">>,
      <<"n", "e", "t", "f", "l", "i", "x">>,
      <<"s", "p", "o", "t", "i", "f", "y">>, <<"n", "i", "k", "e">>,
      <<"a", "d", "i", "d", "a", "s">>,
      <<"s", "a", "m", "s", "u", "n", "g">>, <<"s", "o", "n", "y">>,
      <<"i", "k", "e", "a">>,
      <<"m", "e", "d", "i", "a", "w", "o", "r", "l", "d">>,
      <<"u", "n", "i", "e", "u", "r", "o">>,
      <<"e", "s", "s", "e", "l", "u", "n", "g", "a">>,
      <<"c", "o", "n", "a", "d">>, <<"l", "i", "d", "l">>,
      <<"e", "u", "r", "o", "n", "i", "c", "s">>,
      <<"t", "r", "o", "n", "y">>,
      <<"d", "e", "c", "a", "t", "h", "l", "o", "n">>,
      <<"l", "e", "r", "o", "y">>, <<"m", "e", "r", "l", "i", "n">>,
      <<"b", "r", "i", "c", "o">>, <<"o", "b", "i">>,
      <<"b", "o", "o", "k", "i", "n", "g">>,
      <<"a", "i", "r", "b", "n", "b">>,
      <<"r", "y", "a", "n", "a", "i", "r">>,
      <<"e", "a", "s", "y", "j", "e", "t">>,
      <<"t", "r", "e", "n", "i", "t", "a", "l", "i", "a">>,
      <<"p", "o", "s", "t", "e">>, <<"i", "n", "t", "e", "s", "a">>,
      <<"u", "n", "i", "c", "r", "e", "d", "i", "t">>, <<"b", "n", "l">>,
      <<"f", "i", "n", "e", "c", "o">>,
      <<"v", "o", "d", "a", "f", "o", "n", "e">>, <<"t", "i", "m">>,
      <<"w", "i", "n", "d">>, <<"t", "r", "e">>,
      <<"i", "l", "i", "a", "d">>, <<"f", "a", "s", "t", "w", "e", "b">>,
      <<"s", "u", "b", "i", "t", "o">>,
      <<"a", "u", "t", "o", "s", "c", "o", "u", "t">>,
      <<"i", "m", "m", "o", "b", "i", "l", "i", "a", "r", "e">>,
      <<"i", "d", "e", "a", "l", "i", "s", "t", "a">>
    >>

\* getDomainWithoutTld(domain): the parts before the last ".", or the whole
\* domain when it has one part
getDomainWithoutTld(domain) ==
    LET dots == {i \in 1..Len(domain) : domain[i] = "."}
    IN  IF dots = {} THEN domain
        ELSE SubSeq(domain, 1, (CHOOSE i \in dots : \A j \in dots : j <= i) - 1)

\* levenshteinDistance(a, b): the matrix of the source, one row per
\* character of b; cell j of a row is element j + 1 of the sequence
levenshteinDistance(a, b) ==
    LET min3(x, y, z) == IF x <= y /\ x <= z THEN x ELSE IF y <= z THEN y ELSE z
        RECURSIVE fillRow(_, _, _)
        fillRow(prev, i, row) ==
            IF Len(row) = Len(a) + 1 THEN row
            ELSE LET j == Len(row)
                 IN  fillRow(prev, i,
                         Append(row, IF b[i] = a[j] THEN prev[j]
                                     ELSE min3(prev[j] + 1, row[j] + 1, prev[j + 1] + 1)))
        RECURSIVE fillFrom(_, _)
        fillFrom(prev, i) ==
            IF i > Len(b) THEN prev ELSE fillFrom(fillRow(prev, i, <<i>>), i + 1)
    IN  fillFrom([j \in 1..(Len(a) + 1) |-> j - 1], 1)[Len(a) + 1]

\* normalizeDomain(domain): lower case; then, entry by entry of
\* CHAR_SUBSTITUTIONS and substitute by substitute, every occurrence of the
\* substitute becomes the entry's original; then "-", "_" and digits go
normalizeDomain(domain) ==
    LET CHAR_SUBSTITUTIONS ==
          <<
            <<"a", <<"4", "@", "à">>>>, <<"e", <<"3", "€", "è">>>>,
            <<"i", <<"1", "!", "l", "|">>>>, <<"o", <<"0", "ò">>>>,
            <<"u", <<"v", "ù">>>>, <<"s", <<"5", "$">>>>,
            <<"l", <<"1", "i", "|">>>>, <<"b", <<"8", "6">>>>,
            <<"g", <<"9", "6">>>>, <<"t", <<"7", "+">>>>
          >>
        replaceAll(s, sub, original) ==
            [i \in 1..Len(s) |-> IF s[i] = sub THEN original ELSE s[i]]
        RECURSIVE eachSub(_, _, _)
        eachSub(s, entry, k) ==
            IF k > Len(entry[2]) THEN s
            ELSE eachSub(replaceAll(s, entry[2][k], entry[1]), entry, k + 1)
        RECURSIVE eachEntry(_, _)
        eachEntry(s, e) ==
            IF e > Len(CHAR_SUBSTITUTIONS) THEN s
            ELSE eachEntry(eachSub(s, CHAR_SUBSTITUTIONS[e], 1), e + 1)
        dropped == {"-", "_", "0", "1", "2", "3", "4", "5", "6", "7", "8", "9"}
    IN  SelectSeq(eachEntry(toLowerCase(domain), 1), LAMBDA c : c \notin dropped)

checkTyposquatting_noLiteralTest(domain) ==
    LET normalized == normalizeDomain(getDomainWithoutTld(domain))
    IN  IF \E k \in 1..Len(KNOWN_BRANDS) : KNOWN_BRANDS[k] = normalized
        THEN [passed |-> FALSE, penalty |-> 50, severity |-> "danger",
              message |-> <<"Possibile typosquatting: simile a \"">> \o normalized \o <<"\"">>]
        ELSE [passed |-> TRUE, penalty |-> 0, message |-> << >>, severity |-> "info"]

\* checkTyposquatting(domain): the first brand, in list order, that one of
\* the three rules matches
checkTyposquatting(domain) ==
    LET suffixes ==
          <<
            <<"s", "h", "o", "p">>, <<"s", "t", "o", "r", "e">>,
            <<"o", "f", "f", "i", "c", "i", "a", "l">>,
            <<"i", "t", "a", "l", "i", "a">>, <<"i", "t">>,
            <<"o", "u", "t", "l", "e", "t">>, <<"s", "a", "l", "e">>,
            <<"o", "n", "l", "i", "n", "e">>
          >>
        outcome(penalty, severity, text, brand) ==
            [passed |-> FALSE, penalty |-> penalty, severity |-> severity,
             message |-> <<text>> \o brand \o <<"\"">>]
        \* what one pass of the loop returns for a brand, or << >> when the
        \* loop goes on to the next brand
        pass(domainBase, normalized, brand, distance) ==
            IF normalized = brand /\ domainBase # brand
            THEN <<outcome(50, "danger", "Possibile typosquatting: simile a \"", brand)>>
            ELSE IF domainBase # brand /\ distance = 1 /\ Len(domainBase) >= 4
            THEN <<outcome(40, "danger", "Dominio molto simile a \"", brand)>>
            ELSE IF domainBase # brand /\ distance = 2 /\ Len(domainBase) >= 6
            THEN <<outcome(25, "warning", "Dominio simile a \"", brand)>>
            ELSE IF /\ contains(domainBase, brand)
                    /\ domainBase # brand
                    /\ \E s \in 1..Len(suffixes) :
                          \/ domainBase = brand \o suffixes[s]
                          \/ contains(domainBase, brand \o suffixes[s])
            THEN <<outcome(30, "warning", "Dominio sospetto: usa il brand \"", brand)>>
            ELSE << >>
        \* the passes of all brands; the loop returns at the first that matches
        loop(domainBase, normalized) ==
            LET passes == [k \in 1..Len(KNOWN_BRANDS) |->
                              pass(domainBase, normalized, KNOWN_BRANDS[k],
                                   levenshteinDistance(domainBase, KNOWN_BRANDS[k]))]
                matched == {k \in 1..Len(KNOWN_BRANDS) : passes[k] # << >>}
            IN  IF matched = {}
                THEN [passed |-> TRUE, penalty |-> 0, message |-> << >>, severity |-> "info"]
                ELSE passes[CHOOSE k \in matched : \A m \in matched : k <= m][1]
    IN  CHOOSE r \in {loop(domainBase, normalizeDomain(domainBase)) :
                         domainBase \in {getDomainWithoutTld(domain)}} : TRUE

checkSuspiciousTld(tld) ==
    LET SUSPICIOUS_TLDS ==
          {
            <<"x", "y", "z">>, <<"t", "o", "p">>,
            <<"c", "l", "i", "c", "k">>, <<"w", "o", "r", "k">>,
            <<"l", "i", "n", "k">>, <<"g", "q">>, <<"m", "l">>,
            <<"c", "f">>, <<"g", "a">>, <<"t", "k">>,
            <<"b", "u", "z", "z">>, <<"s", "u", "r", "f">>,
            <<"m", "o", "n", "s", "t", "e", "r">>,
            <<"q", "u", "e", "s", "t">>, <<"s", "b", "s">>,
            <<"c", "f", "d">>, <<"b", "o", "a", "t", "s">>,
            <<"c", "a", "m">>, <<"i", "c", "u">>, <<"c", "y", "o", "u">>,
            <<"r", "e", "s", "t">>, <<"b", "e", "a", "u", "t", "y">>,
            <<"h", "a", "i", "r">>, <<"s", "k", "i", "n">>,
            <<"m", "a", "k", "e", "u", "p">>, <<"b", "a", "r">>,
            <<"l", "o", "a", "n">>, <<"r", "a", "c", "i", "n", "g">>,
            <<"r", "e", "v", "i", "e", "w">>,
            <<"c", "r", "i", "c", "k", "e", "t">>, <<"w", "i", "n">>,
            <<"b", "i", "d">>, <<"s", "t", "r", "e", "a", "m">>,
            <<"d", "o", "w", "n", "l", "o", "a", "d">>,
            <<"a", "c", "c", "o", "u", "n", "t", "a", "n", "t">>,
            <<"s", "c", "i", "e", "n", "c", "e">>, <<"d", "a", "t", "e">>,
            <<"f", "a", "i", "t", "h">>
          }
        TRUSTED_TLDS ==
          {
            <<"i", "t">>, <<"c", "o", "m">>, <<"o", "r", "g">>,
            <<"n", "e", "t">>, <<"e", "u">>, <<"g", "o", "v">>,
            <<"e", "d", "u">>, <<"c", "o", ".", "u", "k">>, <<"d", "e">>,
            <<"f", "r">>, <<"e", "s">>, <<"n", "l">>, <<"b", "e">>,
            <<"a", "t">>, <<"c", "h">>
          }
    IN  IF tld \in SUSPICIOUS_TLDS
        THEN [passed |-> FALSE, penalty |-> 25, severity |-> "warning",
              message |-> <<"TLD sospetto (.">> \o tld \o <<")">>]
        ELSE IF tld \in TRUSTED_TLDS
        THEN [passed |-> TRUE, penalty |-> 0 - 5, severity |-> "info",
              message |-> <<"TLD affidabile (.">> \o tld \o <<")">>]
        ELSE [passed |-> TRUE, penalty |-> 0, message |-> << >>, severity |-> "info"]

checkDomainLength(domain) ==
    LET domainBase == getDomainWithoutTld(domain)
    IN  IF Len(domainBase) > 30
        THEN [passed |-> FALSE, penalty |-> 20, severity |-> "warning",
              message |-> <<"Nome dominio eccessivamente lungo">>]
        ELSE IF Len(domainBase) > 20
        THEN [passed |-> FALSE, penalty |-> 10, severity |-> "info",
              message |-> <<"Nome dominio molto lungo">>]
        ELSE [passed |-> TRUE, penalty |-> 0, message |-> << >>, severity |-> "info"]

\* checkSuspiciousPatterns(domain): hyphens, share of digits, a run of five
\* consonants, the first suspicious keyword; numberCount / length > 0.3 is
\* compared in integers
checkSuspiciousPatterns(domain) ==
    LET domainBase == getDomainWithoutTld(domain)
        count(chars) == Cardinality({i \in 1..Len(domainBase) : domainBase[i] \in chars})
        hyphenCount == count({"-"})
        numberCount == count({"0", "1", "2", "3", "4", "5", "6", "7", "8", "9"})
        consonants == {"b", "c", "d", "f", "g", "h", "j", "k", "l", "m", "n", "p", "q",
                       "r", "s", "t", "v", "w", "x", "z"}
        cluster == \E i \in 1..(Len(domainBase) - 4) :
                      \A j \in i..(i + 4) : toLowerCase(<<domainBase[j]>>)[1] \in consonants
        suspiciousKeywords ==
          <<
            <<"f", "r", "e", "e">>, <<"c", "h", "e", "a", "p">>,
            <<"d", "i", "s", "c", "o", "u", "n", "t">>,
            <<"o", "f", "f", "e", "r">>, <<"w", "i", "n">>,
            <<"p", "r", "i", "z", "e">>, <<"l", "u", "c", "k", "y">>,
            <<"b", "o", "n", "u", "s">>, <<"g", "r", "a", "t", "i", "s">>,
            <<"s", "c", "o", "n", "t", "o">>,
            <<"o", "f", "f", "e", "r", "t", "a">>,
            <<"v", "i", "n", "c", "i", "t", "a">>,
            <<"p", "r", "e", "m", "i", "o">>
          >>
        found == {k \in 1..Len(suspiciousKeywords) : contains(domainBase, suspiciousKeywords[k])}
        keyword == suspiciousKeywords[CHOOSE k \in found : \A m \in found : k <= m]
        hyphens == IF hyphenCount >= 3 THEN <<20, <<"troppi trattini">>>>
                   ELSE IF hyphenCount >= 2 THEN <<10, <<"molti trattini">>>>
                   ELSE <<0, << >>>>
        numbers == IF Len(domainBase) > 0 /\ numberCount * 10 > 3 * Len(domainBase)
                   THEN <<15, <<"troppi numeri">>>> ELSE <<0, << >>>>
        clusters == IF cluster THEN <<15, <<"pattern sospetti">>>> ELSE <<0, << >>>>
        keywords == IF found # {}
                    THEN <<10, <<"keyword sospetta \"">> \o keyword \o <<"\"">>>>
                    ELSE <<0, << >>>>
        totalPenalty == hyphens[1] + numbers[1] + clusters[1] + keywords[1]
        issues == hyphens[2] \o numbers[2] \o clusters[2] \o keywords[2]
    IN  IF totalPenalty > 0
        THEN [passed |-> FALSE,
              penalty |-> IF totalPenalty < 40 THEN totalPenalty ELSE 40,
              message |-> <<"Pattern sospetti: ">> \o issues,
              severity |-> IF totalPenalty >= 20 THEN "warning" ELSE "info"]
        ELSE [passed |-> TRUE, penalty |-> 0, message |-> << >>, severity |-> "info"]

checkKnownSite(domain) ==
    IF \E k \in 1..Len(KNOWN_BRANDS) : KNOWN_BRANDS[k] = getDomainWithoutTld(domain)
    THEN [passed |-> TRUE, penalty |-> 0 - 20, severity |-> "info",
          message |-> <<"Sito conosciuto e affidabile">>]
    ELSE [passed |-> TRUE, penalty |-> 0, message |-> << >>, severity |-> "info"]

heuristicsAnalysis_unclamped(domain) ==
    LET sub == [typosquatting |-> checkTyposquatting(domain),
                tld |-> checkSuspiciousTld(getTld(domain)),
                length |-> checkDomainLength(domain),
                patterns |-> checkSuspiciousPatterns(domain),
                knownSite |-> checkKnownSite(domain)]
    IN  CheckResult("heuristics", "safe",
                    100 - (sub.typosquatting.penalty + sub.tld.penalty + sub.length.penalty
                             + sub.patterns.penalty + sub.knownSite.penalty),
                    10, <<"Nessun pattern sospetto rilevato">>,
                    [domain |-> domain, tld |-> getTld(domain), checks |-> sub])

\* the handler's computation on a cache miss: the five sub-checks in order,
\* the sum of their penalties, the messages by severity, score, status and
\* message, and the details
heuristicsAnalysis(domain) ==
    LET tld == getTld(domain)
        names == <<"typosquatting", "tld", "length", "patterns", "knownSite">>
        build(results) ==
            LET RECURSIVE sum(_)
                sum(k) == IF k = 0 THEN 0 ELSE sum(k - 1) + results[k].penalty
                totalPenalty == sum(Len(results))
                saying(severity) ==
                    SelectSeq([k \in 1..Len(results) |->
                                   IF results[k].message # << >> /\ results[k].severity = severity
                                   THEN results[k].message ELSE << >>],
                              LAMBDA m : m # << >>)
                dangers == saying("danger")
                warnings == saying("warning")
                score == IF 100 - totalPenalty > 100 THEN 100
                         ELSE IF 100 - totalPenalty < 0 THEN 0 ELSE 100 - totalPenalty
                status == IF dangers # << >> THEN "danger"
                          ELSE IF warnings # << >> THEN "warning" ELSE "safe"
                message == IF dangers # << >> THEN dangers[1]
                           ELSE IF warnings # << >> THEN warnings[1]
                           ELSE IF score >= 90 THEN <<"Nessun pattern sospetto rilevato">>
                           ELSE <<"Dominio nella norma">>
                details ==
                    [domain |-> domain, tld |-> tld,
                     checks |-> [n \in {names[k] : k \in 1..Len(names)} |->
                                   LET r == results[CHOOSE k \in 1..Len(names) : names[k] = n]
                                   IN  [passed |-> r.passed, penalty |-> r.penalty,
                                        message |-> IF r.message = << >> THEN null
                                                    ELSE r.message]]]
                        @@ (IF warnings # << >> THEN [warnings |-> warnings] ELSE << >>)
                        @@ (IF dangers # << >> THEN [dangers |-> dangers] ELSE << >>)
            IN  CheckResult("heuristics", status, score, 10, message, details)
    IN  CHOOSE r \in {build(results) :
                         results \in {<<checkTyposquatting(domain), checkSuspiciousTld(tld),
                                        checkDomainLength(domain),
                                        checkSuspiciousPatterns(domain),
                                        checkKnownSite(domain)>>}} : TRUE

(***************************************************************************)
(* TrustCheckerService (trust-checker.service.ts).                         *)
(***************************************************************************)
\* what an Observable<CheckResult> delivers: one value, or an error
NextValue(v) == [kind |-> "next", value |-> v]

ErrorNotification == [kind |-> "error"]

runCheck_noCatch(notification, type) == notification

\* runCheck: catchError replaces an error by the placeholder
runCheck(notification, type) ==
    IF notification.kind = "error" THEN NextValue(createErrorResult(type)) ELSE notification

\* the result a mock service delivers for the URL
mockCheck(type, url) ==
    LET scenarios == getScenarioForUrl(url)
    IN  CASE type = "safe-browsing" -> {MockSafeBrowsingService(sc) : sc \in scenarios}
          [] type = "whois" -> {MockWhoisService(sc) : sc \in scenarios}
          [] type = "ssl" -> {MockSslService(sc) : sc \in scenarios}
          [] type = "ipqs" -> {MockIpqsService(sc) : sc \in scenarios}
          [] type = "reviews" -> {MockReviewsService(sc) : sc \in scenarios}
          [] type = "heuristics" ->
                {MockHeuristicsService(sc, url, dr) : sc \in scenarios, dr \in RandomDraws}

\* response.result of the handler the real service posts to
realCheck(type, domain) ==
    CASE type = "safe-browsing" -> safeBrowsingHandler(siteProfile(domain))
      [] type = "whois" -> whoisHandler(siteProfile(domain))
      [] type = "ssl" -> sslHandler(siteProfile(domain))
      [] type = "ipqs" -> ipqsHandler(siteProfile(domain))
      [] type = "reviews" -> reviewsHandler(siteProfile(domain))
      [] type = "heuristics" -> heuristicsHandler(domain)

CACHE_PREFIX == <<"trusty_cache_">>

CACHE_TTL_MS == 24 * 60 * 60 * 1000

\* JSON.stringify: a Date is written as its ISO string
toISOString(d) == [isoString |-> d.date]

JSONstringify(entry) ==
    [json |-> [entry EXCEPT !.result.checkedAt = toISOString(entry.result.checkedAt)]]

JSONparse(text) == text.json

cacheKey(domain) == CACHE_PREFIX \o toLowerCase(domain)

setItem(store, key, text) ==
    [k \in DOMAIN store \cup {key} |-> IF k = key THEN text ELSE store[k]]

removeItem(store, key) == [k \in DOMAIN store \ {key} |-> store[k]]

removeItems(store, keys) == [k \in DOMAIN store \ keys |-> store[k]]

getCachedResult_expiresAtTtl(store, mode, domain, clock) ==
    LET key == cacheKey(domain)
    IN  IF mode = "unavailable" THEN [cached |-> << >>, store |-> store]
        ELSE IF key \notin DOMAIN store THEN [cached |-> << >>, store |-> store]
        ELSE IF clock - JSONparse(store[key]).timestamp >= CACHE_TTL_MS
        THEN [cached |-> << >>, store |-> removeItem(store, key)]
        ELSE [cached |-> <<JSONparse(store[key]).result>>, store |-> store]

getCachedResult_refreshOnHit(store, mode, domain, clock) ==
    LET key == cacheKey(domain)
    IN  IF mode = "unavailable" THEN [cached |-> << >>, store |-> store]
        ELSE IF key \notin DOMAIN store THEN [cached |-> << >>, store |-> store]
        ELSE IF clock - JSONparse(store[key]).timestamp > CACHE_TTL_MS
        THEN [cached |-> << >>, store |-> removeItem(store, key)]
        ELSE [cached |-> <<JSONparse(store[key]).result>>,
              store |-> setItem(store, key, [json |-> [JSONparse(store[key]) EXCEPT
                                                          !.timestamp = clock]])]

\* getCachedResult: <<entry.result>> or << >> for null, and the storage it
\* leaves; a storage access that throws gives null
getCachedResult(store, mode, domain, clock) ==
    LET key == cacheKey(domain)
    IN  IF mode = "unavailable" THEN [cached |-> << >>, store |-> store]
        ELSE IF key \notin DOMAIN store THEN [cached |-> << >>, store |-> store]
        ELSE IF clock - JSONparse(store[key]).timestamp > CACHE_TTL_MS
        THEN [cached |-> << >>, store |-> removeItem(store, key)]
        ELSE [cached |-> <<JSONparse(store[key]).result>>, store |-> store]

\* cleanOldCacheEntries
cleanOldCacheEntries(store, mode, clock) ==
    IF mode = "unavailable" THEN store
    ELSE removeItems(store, {key \in DOMAIN store :
                                /\ startsWith(key, CACHE_PREFIX)
                                /\ clock - JSONparse(store[key]).timestamp > CACHE_TTL_MS})

\* setCachedResult: setItem throws when the storage is unavailable or full
setCachedResult(store, mode, domain, res, clock) ==
    IF mode = "ok"
    THEN setItem(store, cacheKey(domain), JSONstringify([result |-> res, timestamp |-> clock]))
    ELSE cleanOldCacheEntries(store, mode, clock)

(***************************************************************************)
(* The signal cache of the API handlers (api/lib/cache.ts) and the cache   *)
(* flow of the six handlers.  The cache server keeps, for each key, the    *)
(* value and the second at which it expires.  Values are plain JSON data   *)
(* (numbers, strings, booleans, null), which the client library's          *)
(* serialisation gives back unchanged.                                     *)
(***************************************************************************)
CACHE_TTL_oneDay(type) == 24 * 60 * 60

\* CACHE_TTL, in seconds
CACHE_TTL(type) ==
    CASE type = "whois" -> 30 * 24 * 60 * 60
      [] type = "ssl" -> 7 * 24 * 60 * 60
      [] type = "heuristics" -> 30 * 24 * 60 * 60
      [] type = "safe-browsing" -> 24 * 60 * 60
      [] type = "ipqs" -> 24 * 60 * 60
      [] type = "reviews" -> 6 * 60 * 60

getCacheKey_verbatim(type, domain) == <<"trusty:", type, ":">> \o domain

getCacheKey(type, domain) == <<"trusty:", type, ":">> \o dropPrefix(toLowerCase(domain), WWW)

getCached_uncaught(store, mode, key, second) ==
    IF mode = "unconfigured" THEN << >>
    ELSE IF key \in DOMAIN store /\ second < store[key].expiresAt
    THEN <<store[key].value>>
    ELSE << >>

\* getCached: <<value>>, or << >> for null.  mode is "ok", "unconfigured"
\* (getRedis returns null) or "throws" (the request to the server fails);
\* second is the time of the cache server, in seconds
getCached(store, mode, key, second) ==
    IF mode # "ok" THEN << >>
    ELSE IF key \in DOMAIN store /\ second < store[key].expiresAt
    THEN <<store[key].value>>
    ELSE << >>

\* setCache: client.set(key, value, {ex: ttlSeconds})
setCache(store, mode, key, value, ttlSeconds, second) ==
    IF mode # "ok" THEN store
    ELSE [k \in DOMAIN store \cup {key} |->
             IF k = key THEN [value |-> value, expiresAt |-> second + ttlSeconds]
             ELSE store[k]]

\* the result a handler returns when its API key is not configured
handlerUnconfigured(type) ==
    CASE type = "safe-browsing" ->
            CheckResult(type, "warning", 50, 0, "Verifica Safe Browsing non disponibile",
                        [isMalware |-> FALSE, isPhishing |-> FALSE, error |-> TRUE])
      [] type = "ipqs" ->
            CheckResult(type, "warning", 50, 30, "Verifica reputazione non disponibile",
                        [error |-> TRUE])
      [] type = "reviews" ->
            CheckResult(type, "warning", 50, REVIEWS_WEIGHT, "Verifica recensioni non disponibile",
                        [totalReviews |-> 0, insufficientReviews |-> TRUE, error |-> TRUE])

\* the result a handler returns from its catch block (ssl: for an error that
\* is neither a failed name lookup nor a refused connection)
handlerFallback(type) ==
    CASE type = "safe-browsing" ->
            CheckResult(type, "warning", 50, 0, "Impossibile verificare con Google Safe Browsing",
                        [isMalware |-> FALSE, isPhishing |-> FALSE, error |-> TRUE])
      [] type = "whois" ->
            CheckResult(type, "warning", 50, 10, "Impossibile verificare età del dominio",
                        [domainAge |-> null, registrar |-> null, error |-> TRUE])
      [] type = "ssl" ->
            CheckResult(type, "warning", 50, 20, "Impossibile verificare certificato SSL",
                        [isValid |-> FALSE, error |-> TRUE])
      [] type = "ipqs" ->
            CheckResult(type, "warning", 50, 30, "Impossibile verificare reputazione",
                        [error |-> TRUE])
      [] type = "reviews" ->
            CheckResult(type, "warning", 50, REVIEWS_WEIGHT, "Impossibile verificare recensioni",
                        [totalReviews |-> 0, insufficientReviews |-> TRUE, error |-> TRUE])

\* one request to the handler of the given type: the response, the cache
\* it leaves, the cache writes it made and whether it turned to its external
\* collaborator (for heuristics: ran its analysis).  safe-browsing and ipqs
\* test their API key before the cache lookup, reviews after it.  A failed
\* collaborator call makes the handler throw into its catch block, except in
\* the reviews handler: searchAllReviewSources catches the failure and
\* returns no sources, and the handler goes on as if none had been found.
signalCheck(type, url, store, mode, hasKey, isDown, clock) ==
    LET domain == extractDomain(normalizeUrl(url))
        key == getCacheKey(type, domain)
        cached == getCached(store, mode, key, clock \div 1000)
        fresh == IF type = "reviews" /\ isDown
                 THEN reviewsHandler([siteProfile(domain) EXCEPT !.aggregatedRating10 = null,
                                                                 !.totalReviews = 0])
                 ELSE realCheck(type, domain)
        ttl == CASE type = "safe-browsing" /\ fresh.status = "danger" -> 60 * 60
                 [] type = "whois" /\ fresh.details.domainAge = null -> CACHE_TTL(type) \div 30
                 [] OTHER -> CACHE_TTL(type)
        reply(r, st, w, c) ==
            [type |-> type, response |-> r, store |-> st, writes |-> w, contacted |-> c]
    IN  IF type \in {"safe-browsing", "ipqs"} /\ ~hasKey
        THEN reply(handlerUnconfigured(type), store, {}, FALSE)
        ELSE IF cached # << >> THEN reply(cached[1], store, {}, FALSE)
        ELSE IF type = "reviews" /\ ~hasKey
        THEN reply(handlerUnconfigured(type), store, {}, FALSE)
        ELSE IF isDown /\ type \notin {"heuristics", "reviews"}
        THEN reply(handlerFallback(type), store, {}, TRUE)
        ELSE reply(fresh, setCache(store, mode, key, fresh, ttl, clock \div 1000),
                   IF mode = "ok"
                   THEN {[type |-> type, key |-> key, ttl |-> ttl, value |-> fresh]}
                   ELSE {},
                   TRUE)

(***************************************************************************)
(* State.                                                                  *)
(*   checks, result  the list last handed to calculateScore, its return    *)
(*   useMocks        environment.useMocks                                  *)
(*   failing         the checks whose HTTP call ends in an error           *)
(*   storageMode     localStorage works, is full, or throws on any access  *)
(*   localStorage    key -> stored text                                    *)
(*   now             Date.now(), in ms                                     *)
(*   pc              "idle", or "waiting" while forkJoin is subscribed     *)
(*   reqUrl, normalizedUrl, domain   of the latest check(url)              *)
(*   settled         what each of the six checks has delivered so far      *)
(*   emitted, errors what the Observable returned by the latest check(url) *)
(*                   has delivered to its subscriber                       *)
(*   invoked         the signal checks started by the latest check(url)    *)
(*   scoreCalls      calls of calculateScore made by the latest check(url) *)
(*   redis           the signal cache: key -> value and expiry second      *)
(*   redisMode       the signal cache works, is not configured, or fails   *)
(*   apiKeys         whether the handlers' API keys are configured         *)
(*   down            the types whose external collaborator fails           *)
(*   contacted       the types whose handler turned to its collaborator    *)
(*                   during the latest check(url)                          *)
(*   written         the signal-cache writes of the latest check(url)      *)
(***************************************************************************)
VARIABLES checks, result, useMocks, failing, storageMode, localStorage, now, ticks, runs,
          pc, reqUrl, normalizedUrl, domain, settled, emitted, errors, invoked, scoreCalls,
          redis, redisMode, apiKeys, down, contacted, written

vars == <<checks, result, useMocks, failing, storageMode, localStorage, now, ticks, runs,
          pc, reqUrl, normalizedUrl, domain, settled, emitted, errors, invoked, scoreCalls,
          redis, redisMode, apiKeys, down, contacted, written>>

handlerVars == <<redis, redisMode, apiKeys, down, contacted, written>>

orchestratorVars == <<useMocks, failing, storageMode, localStorage, now, ticks, runs,
                      pc, reqUrl, normalizedUrl, domain, settled, emitted, errors, invoked,
                      scoreCalls, redis, redisMode, apiKeys, down, contacted, written>>

MaxRuns == 2
MaxTicks == 2

Pending == [type |-> "pending"]

TypeSet == {CheckTypes[i] : i \in 1..NumTypes}

EmptyStorage == [k \in {} |-> k]

Urls ==
    { <<"e", "b", "a", "y", ".", "i", "t">>,
      <<" ", "W", "W", "W", ".", "e", "B", "a", "y", ".", "i", "t", "/">>,
      <<"h", "t", "t", "p", ":", "/", "/", "f", "a", "k", "e", ".", "i", "t">> }

\* the clock advances by the cache TTL: an entry is then exactly as old as
\* the TTL, and older than it after a second step
TickSteps == {CACHE_TTL_MS}

StorageModes == {"ok", "full", "unavailable"}

\* mock services never fail; the real ones fail in any combination
Environments ==
    {[useMocks |-> TRUE, failing |-> {}, storageMode |-> m] : m \in StorageModes}
        \cup {[useMocks |-> FALSE, failing |-> f, storageMode |-> "ok"] : f \in SUBSET TypeSet}
        \cup {[useMocks |-> FALSE, failing |-> {}, storageMode |-> m] :
                 m \in StorageModes \ {"ok"}}

InitOrchestrator ==
    /\ \E e \in Environments :
          /\ useMocks = e.useMocks
          /\ failing = e.failing
          /\ storageMode = e.storageMode
    /\ localStorage = EmptyStorage
    /\ now = 0
    /\ ticks = 0
    /\ runs = 0
    /\ pc = "idle"
    /\ reqUrl = << >>
    /\ normalizedUrl = << >>
    /\ domain = << >>
    /\ settled = [i \in 1..NumTypes |-> Pending]
    /\ emitted = << >>
    /\ errors = 0
    /\ invoked = {}
    /\ scoreCalls = 0

\* the handlers as the client sees them: answering, or failing as a whole
HandlersIdle ==
    /\ redis = EmptyStorage
    /\ redisMode = "unconfigured"
    /\ apiKeys = TRUE
    /\ down = {}
    /\ contacted = {}
    /\ written = {}

Init ==
    /\ checks = << >>
    /\ result = << >>
    /\ InitOrchestrator
    /\ HandlersIdle

\* check(url), subscribed at once by the caller
Check(url) ==
    /\ pc = "idle"
    /\ runs < MaxRuns
    /\ runs' = runs + 1
    /\ reqUrl' = url
    /\ normalizedUrl' = normalizeUrl(url)
    /\ domain' = extractDomain(normalizeUrl(url))
    /\ LET got == getCachedResult(localStorage, storageMode,
                                  extractDomain(normalizeUrl(url)), now)
       IN  /\ localStorage' = got.store
           /\ IF got.cached # << >>
              THEN /\ emitted' = got.cached
                   /\ invoked' = {}
                   /\ pc' = "idle"
              ELSE /\ emitted' = << >>
                   /\ invoked' = TypeSet
                   /\ pc' = "waiting"
    /\ settled' = [i \in 1..NumTypes |-> Pending]
    /\ errors' = 0
    /\ scoreCalls' = 0
    /\ UNCHANGED <<checks, result, useMocks, failing, storageMode, now, ticks>>
    /\ UNCHANGED handlerVars

\* what the check of type CheckTypes[i] can deliver
delivers(i) ==
    IF useMocks THEN {NextValue(r) : r \in mockCheck(CheckTypes[i], normalizedUrl)}
    ELSE IF CheckTypes[i] \in failing THEN {ErrorNotification}
    ELSE {NextValue(realCheck(CheckTypes[i], domain))}

Complete_arrivalOrder(results) ==
    LET arrived == [i \in 1..NumTypes |-> results[NumTypes + 1 - i]]
    IN  /\ checks' = arrived
        /\ result' = <<calculateScore(normalizedUrl, arrived, now)>>
        /\ scoreCalls' = scoreCalls + 1
        /\ localStorage' = setCachedResult(localStorage, storageMode, domain,
                                           calculateScore(normalizedUrl, arrived, now), now)
        /\ emitted' = Append(emitted, calculateScore(normalizedUrl, arrived, now))
        /\ pc' = "idle"
        /\ UNCHANGED errors

\* forkJoin has all six values: map(calculateScore), tap(setCachedResult),
\* and the subscriber receives the result
Complete(results) ==
    /\ checks' = results
    /\ result' = <<calculateScore(normalizedUrl, results, now)>>
    /\ scoreCalls' = scoreCalls + 1
    /\ localStorage' = setCachedResult(localStorage, storageMode, domain,
                                       calculateScore(normalizedUrl, results, now), now)
    /\ emitted' = Append(emitted, calculateScore(normalizedUrl, results, now))
    /\ pc' = "idle"
    /\ UNCHANGED errors

\* the i-th check settles; forkJoin keeps its value, fails on an error, and
\* completes when the last value arrives
Settle(i) ==
    /\ pc = "waiting"
    /\ settled[i] = Pending
    /\ \E d \in delivers(i) :
          LET n == runCheck(d, CheckTypes[i])
          IN  IF n.kind = "error"
              THEN /\ errors' = errors + 1
                   /\ pc' = "idle"
                   /\ UNCHANGED <<checks, result, scoreCalls, localStorage, emitted, settled>>
              ELSE /\ settled' = [settled EXCEPT ![i] = n.value]
                   /\ IF \E j \in 1..NumTypes : j # i /\ settled[j] = Pending
                      THEN UNCHANGED <<checks, result, scoreCalls, localStorage, emitted,
                                       pc, errors>>
                      ELSE Complete([settled EXCEPT ![i] = n.value])
    /\ UNCHANGED <<useMocks, failing, storageMode, now, ticks, runs, reqUrl, normalizedUrl,
                   domain, invoked>>
    /\ UNCHANGED handlerVars

\* time passes.  The clock is read when check(url) is called and when
\* forkJoin completes; it starts at the first call, and time that passes
\* while the checks are pending is time that passes before the call.
Tick(step) ==
    /\ pc = "idle"
    /\ runs > 0
    /\ ticks < MaxTicks
    /\ ticks' = ticks + 1
    /\ now' = now + step
    /\ UNCHANGED <<checks, result, useMocks, failing, storageMode, localStorage, runs, pc,
                   reqUrl, normalizedUrl, domain, settled, emitted, errors, invoked, scoreCalls>>
    /\ UNCHANGED handlerVars

Next ==
    \/ \E url \in Urls : Check(url)
    \/ \E i \in 1..NumTypes : Settle(i)
    \/ \E step \in TickSteps : Tick(step)

Spec == Init /\ [][Next]_vars

(***************************************************************************)
(* calculateScore on its own, over the lists of InitScore.                 *)
(***************************************************************************)
InitScore ==
    /\ \E sb \in SafeBrowsingInputs \cup {Absent}, wh \in WhoisInputs \cup {Absent},
          ssl \in SslInputs \cup {Absent}, ip \in IpqsInputs \cup {Absent},
          rv \in ReviewsInputs \cup {Absent}, he \in HeuristicsInputs \cup {Absent} :
            checks = Compact(<<sb, wh, ssl, ip, rv, he>>)
    /\ result = << >>
    /\ useMocks = TRUE
    /\ failing = {}
    /\ storageMode = "ok"
    /\ localStorage = EmptyStorage
    /\ now = 0
    /\ ticks = 0
    /\ runs = 0
    /\ pc = "idle"
    /\ reqUrl = << >>
    /\ normalizedUrl = << >>
    /\ domain = << >>
    /\ settled = [i \in 1..NumTypes |-> Pending]
    /\ emitted = << >>
    /\ errors = 0
    /\ invoked = {}
    /\ scoreCalls = 0
    /\ HandlersIdle

\* one call of ScoringService.calculateScore
Calculate ==
    /\ result = << >>
    /\ result' = <<calculateScore(SampleUrl, checks, now)>>
    /\ UNCHANGED checks
    /\ UNCHANGED orchestratorVars

NextScore == Calculate

SpecScore == InitScore /\ [][NextScore]_vars

(***************************************************************************)
(* The client together with the six API handlers and their signal cache.   *)
(* One check(url) is one step: the HTTP calls succeed, and what varies is  *)
(* what each handler finds (cache, API key, collaborator).  The handlers   *)
(* use disjoint cache keys, so the order in which they run is immaterial.  *)
(***************************************************************************)
StackUrls ==
    { <<"e", "b", "a", "y", ".", "i", "t">>,
      <<"W", "W", "W", ".", "e", "B", "a", "y", ".", "i", "t">>,
      <<"h", "t", "t", "p", ":", "/", "/", "f", "a", "k", "e", ".", "i", "t">>,
      <<"b", "i", "t", ".", "i", "t">> }

\* a signal cache filled by earlier requests, made while ebay.it was
\* flagged and newly registered
StaleRedis ==
    LET d == <<"e", "b", "a", "y", ".", "i", "t">>
        s1 == setCache(EmptyStorage, "ok", getCacheKey("safe-browsing", d),
                       safeBrowsingHandler(ScamSite), 60 * 60, 0)
    IN  setCache(s1, "ok", getCacheKey("whois", d), whoisHandler(ScamSite),
                 CACHE_TTL("whois"), 0)

InitStack ==
    /\ checks = << >>
    /\ result = << >>
    /\ useMocks = FALSE
    /\ failing = {}
    /\ storageMode \in {"ok", "unavailable"}
    /\ localStorage = EmptyStorage
    /\ now = 0
    /\ ticks = 0
    /\ runs = 0
    /\ pc = "idle"
    /\ reqUrl = << >>
    /\ normalizedUrl = << >>
    /\ domain = << >>
    /\ settled = [i \in 1..NumTypes |-> Pending]
    /\ emitted = << >>
    /\ errors = 0
    /\ invoked = {}
    /\ scoreCalls = 0
    /\ redis \in {EmptyStorage, StaleRedis}
    /\ redisMode \in {"ok", "unconfigured", "throws"}
    /\ apiKeys \in BOOLEAN
    /\ down \in {{}, {"safe-browsing"}, TypeSet \ {"heuristics"}}
    /\ contacted = {}
    /\ written = {}

\* check(url) from the call to the value its subscriber receives
Evaluate(url) ==
    /\ pc = "idle"
    /\ runs < MaxRuns
    /\ runs' = runs + 1
    /\ reqUrl' = url
    /\ normalizedUrl' = normalizeUrl(url)
    /\ domain' = extractDomain(normalizeUrl(url))
    /\ \E got \in {getCachedResult(localStorage, storageMode,
                                     extractDomain(normalizeUrl(url)), now)} :
          IF got.cached # << >>
          THEN /\ localStorage' = got.store
               /\ emitted' = got.cached
               /\ invoked' = {}
               /\ scoreCalls' = 0
               /\ contacted' = {}
               /\ written' = {}
               /\ UNCHANGED <<checks, result, redis>>
          ELSE LET call(i, store) == signalCheck(CheckTypes[i], normalizeUrl(url), store,
                                                redisMode, apiKeys, CheckTypes[i] \in down, now)
               IN  \E o1 \in {call(1, redis)} : \E o2 \in {call(2, o1.store)} :
                   \E o3 \in {call(3, o2.store)} : \E o4 \in {call(4, o3.store)} :
                   \E o5 \in {call(5, o4.store)} : \E o6 \in {call(6, o5.store)} :
                   \E results \in {[i \in 1..NumTypes |->
                                       runCheck(NextValue(<<o1, o2, o3, o4, o5, o6>>[i].response),
                                                CheckTypes[i]).value]} :
                   \E res \in {calculateScore(normalizeUrl(url), results, now)} :
                      /\ invoked' = TypeSet
                      /\ redis' = o6.store
                      /\ contacted' = {o.type : o \in {x \in {o1, o2, o3, o4, o5, o6} :
                                                          x.contacted}}
                      /\ written' = UNION {o.writes : o \in {o1, o2, o3, o4, o5, o6}}
                      /\ checks' = results
                      /\ result' = <<res>>
                      /\ scoreCalls' = 1
                      /\ localStorage' = setCachedResult(got.store, storageMode,
                                                         extractDomain(normalizeUrl(url)),
                                                         res, now)
                      /\ emitted' = <<res>>
    /\ settled' = [i \in 1..NumTypes |-> Pending]
    /\ errors' = 0
    /\ UNCHANGED <<useMocks, failing, storageMode, now, ticks, pc, redisMode, apiKeys, down>>

NextStack ==
    \/ \E url \in StackUrls : Evaluate(url)
    \/ \E step \in TickSteps : Tick(step)

SpecStack == InitStack /\ [][NextStack]_vars

(***************************************************************************)
(* Properties of calculateScore.                                           *)
(***************************************************************************)
\* C1: when the safe-browsing signal's details report isMalware or
\* isPhishing, the returned score is exactly 0 and the level is danger,
\* whatever the other signals are.
C1_MalwareOverride ==
    (/\ result # << >>
     /\ \E i \in 1..Len(checks) :
           /\ checks[i].type = "safe-browsing"
           /\ "isMalware" \in DOMAIN checks[i].details
           /\ "isPhishing" \in DOMAIN checks[i].details
           /\ (checks[i].details.isMalware \/ checks[i].details.isPhishing))
        => (result[1].score = 0 /\ result[1].level = "danger")

\* a phishing-only report among six signals whose blend is above 0
C1_Witness ==
    /\ result # << >>
    /\ Len(checks) = 6
    /\ ~checks[1].details.isMalware
    /\ checks[1].details.isPhishing
    /\ MathRound(blendScore(checks)) > 0
    /\ result[1].score = 0
    /\ result[1].level = "danger"

\* C2: when the whois signal reports an age below 30 days, the returned
\* score is at most 50, whatever the other signals are.
C2_YoungDomainCap ==
    (/\ result # << >>
     /\ \E i \in 1..Len(checks) :
           /\ checks[i].type = "whois"
           /\ "domainAge" \in DOMAIN checks[i].details
           /\ checks[i].details.domainAge # null
           /\ checks[i].details.domainAge < 30)
        => result[1].score <= 50

\* an age of 29 days caps a blend above 50 at 50
C2_Witness ==
    /\ result # << >>
    /\ \E i \in 1..Len(checks) :
          /\ checks[i].type = "whois"
          /\ "domainAge" \in DOMAIN checks[i].details
          /\ checks[i].details.domainAge = 29
    /\ MathRound(blendScore(checks)) > 50
    /\ result[1].score = 50

\* C3: when the reviews signal reports a total review count below 20, the
\* returned score is at most 60, whatever the other signals are.
C3_InsufficientReviewsCap ==
    (/\ result # << >>
     /\ \E i \in 1..Len(checks) :
           /\ checks[i].type = "reviews"
           /\ "totalReviews" \in DOMAIN checks[i].details
           /\ checks[i].details.totalReviews < 20)
        => result[1].score <= 60

\* 19 reviews cap a blend above 60 at 60
C3_Witness ==
    /\ result # << >>
    /\ \E i \in 1..Len(checks) :
          /\ checks[i].type = "reviews"
          /\ "totalReviews" \in DOMAIN checks[i].details
          /\ checks[i].details.totalReviews = 19
    /\ MathRound(blendScore(checks)) > 60
    /\ result[1].score = 60

\* C8: when no override rule is active, the returned score is
\* round(sum(score_i * weight_i) / sum(weight_i)) over the signals of the
\* list, a half rounding up, and 50 when the weights sum to zero.
C8_RoundedWeightedMean ==
    (/\ result # << >>
     /\ ~malwareOverride(checks)
     /\ ~youngDomainCap(checks)
     /\ ~cryptoPenalty(checks)
     /\ ~insufficientReviewsCap(checks))
        => LET term(i) == IF i <= Len(checks) THEN checks[i].score * checks[i].weight ELSE 0
               wt(i) == IF i <= Len(checks) THEN checks[i].weight ELSE 0
               S == term(1) + term(2) + term(3) + term(4) + term(5) + term(6)
               W == wt(1) + wt(2) + wt(3) + wt(4) + wt(5) + wt(6)
           IN  result[1].score = IF W = 0 THEN 50 ELSE (2 * S + W) \div (2 * W)

\* C9: the level is a function of the score alone: safe iff score >= 70,
\* caution iff 40 <= score < 70, danger iff score < 40.
C9_LevelThresholds ==
    result # << >> =>
        /\ (result[1].level = "safe") <=> (result[1].score >= 70)
        /\ (result[1].level = "caution") <=> (40 <= result[1].score /\ result[1].score < 70)
        /\ (result[1].level = "danger") <=> (result[1].score < 40)

\* a score of exactly 70, which is safe
C9_Witness ==
    /\ result # << >>
    /\ result[1].score = 70
    /\ result[1].level = "safe"

\* C10: for scores and weights that are integers in 0..100, the returned
\* score is an integer in 0..100 under every combination of override rules.
C10_ScoreRange ==
    (/\ result # << >>
     /\ \A i \in 1..Len(checks) : checks[i].score \in 0..100 /\ checks[i].weight \in 0..100)
        => result[1].score \in 0..100

\* the crypto-only penalty takes a blend below 20 to 0
C10_Witness ==
    /\ result # << >>
    /\ ~malwareOverride(checks)
    /\ cryptoPenalty(checks)
    /\ MathRound(blendScore(checks)) \in 1..19
    /\ result[1].score = 0

(***************************************************************************)
(* Properties of TrustCheckerService.check.                                *)
(***************************************************************************)
\* C4: whichever checks fail, check(url) never delivers an error and
\* delivers exactly one result once its run is over; a computed result
\* carries the six signals in order, and each failed check appears as a
\* placeholder with status unknown and score 50.
C4_FailuresBecomePlaceholders ==
    /\ errors = 0
    /\ Len(emitted) <= 1
    /\ (runs > 0 /\ pc = "idle") => Len(emitted) = 1
    /\ (runs > 0 /\ pc = "idle" /\ invoked # {}) =>
          /\ Len(emitted[1].details) = 6
          /\ \A i \in 1..6 :
                /\ emitted[1].details[i].type = CheckTypes[i]
                /\ (~useMocks /\ CheckTypes[i] \in failing) =>
                      /\ emitted[1].details[i].status = "unknown"
                      /\ emitted[1].details[i].score = 50

\* a finished run in which all six checks failed
C4_Witness ==
    /\ ~useMocks
    /\ failing = {"safe-browsing", "whois", "ssl", "ipqs", "reviews", "heuristics"}
    /\ runs > 0
    /\ pc = "idle"
    /\ invoked # {}
    /\ errors = 0
    /\ Len(emitted) = 1
    /\ \A i \in 1..6 : emitted[1].details[i].status = "unknown"

\* C5: a call of check(url) made while localStorage holds an entry for the
\* normalized domain of url that is not older than the TTL returns the
\* stored result, starts none of the six checks and does not call
\* calculateScore.
C5_CacheHitBypassesChecks ==
    [][\A url \in Urls :
          (/\ runs' = runs + 1
           /\ reqUrl' = url
           /\ (CACHE_PREFIX \o toLowerCase(extractDomain(normalizeUrl(url)))) \in DOMAIN localStorage
           /\ now - localStorage[CACHE_PREFIX \o toLowerCase(extractDomain(normalizeUrl(url)))]
                        .json.timestamp <= CACHE_TTL_MS)
              => /\ emitted' = <<localStorage[CACHE_PREFIX
                                    \o toLowerCase(extractDomain(normalizeUrl(url)))].json.result>>
                 /\ invoked' = {}
                 /\ scoreCalls' = 0
                 /\ pc' = "idle"
                 /\ checks' = checks
                 /\ result' = result]_vars

\* a second call, under another spelling of the domain, that was served
\* from the entry the first call stored
C5_Witness ==
    /\ runs = 2
    /\ pc = "idle"
    /\ reqUrl = <<" ", "W", "W", "W", ".", "e", "B", "a", "y", ".", "i", "t", "/">>
    /\ invoked = {}
    /\ scoreCalls = 0
    /\ Len(emitted) = 1
    /\ emitted[1].url = <<"h", "t", "t", "p", "s", ":", "/", "/", "e", "b", "a", "y", ".", "i", "t">>
    /\ cacheKey(domain) \in DOMAIN localStorage
    /\ emitted[1] = localStorage[cacheKey(domain)].json.result

\* C6: the weights of the signals handed to calculateScore sum to exactly
\* 100 in every run, placeholders included.
C6_WeightsSumTo100 ==
    checks # << >> =>
        checks[1].weight + checks[2].weight + checks[3].weight
            + checks[4].weight + checks[5].weight + checks[6].weight = 100

\* C7: every safe-browsing signal handed to calculateScore has weight 0.
C7_MalwareFilterWeightZero ==
    \A i \in 1..Len(checks) : checks[i].type = "safe-browsing" => checks[i].weight = 0

(***************************************************************************)
(* Further properties of calculateScore.                                   *)
(***************************************************************************)
\* C11: the override rules never raise the score: the returned score is at
\* most the rounded weighted blend of the same list, both as the code
\* computes the blend and as the exact quotient rounded half up.
C11_OverridesNeverRaise ==
    result # << >> =>
        LET term(i) == IF i <= Len(checks) THEN checks[i].score * checks[i].weight ELSE 0
            wt(i) == IF i <= Len(checks) THEN checks[i].weight ELSE 0
            S == term(1) + term(2) + term(3) + term(4) + term(5) + term(6)
            W == wt(1) + wt(2) + wt(3) + wt(4) + wt(5) + wt(6)
        IN  /\ result[1].score <= MathRound(blendScore(checks))
            /\ result[1].score <= IF W = 0 THEN 50 ELSE (2 * S + W) \div (2 * W)

\* the crypto-only penalty alone takes 20 points off a blend above 20
C11_Witness ==
    /\ result # << >>
    /\ ~malwareOverride(checks)
    /\ ~youngDomainCap(checks)
    /\ ~insufficientReviewsCap(checks)
    /\ cryptoPenalty(checks)
    /\ result[1].score > 0
    /\ result[1].score = MathRound(blendScore(checks)) - 20

\* C12: raising the score of one signal, everything else in the list being
\* equal, never lowers the final score: for every signal of the list and
\* every higher score (one more, or the maximum 100) the list with that
\* signal's score raised gets at least the score the list got.
C12_Monotonicity ==
    result # << >> =>
        \A i \in 1..Len(checks) :
            \A higher \in {checks[i].score + 1, 100} :
                (higher > checks[i].score /\ higher <= 100) =>
                    finalScore([checks EXCEPT ![i].score = higher]) >= result[1].score

\* a list whose score rises when its reviews signal goes from 84 to 100
C12_Witness ==
    /\ result # << >>
    /\ ~malwareOverride(checks)
    /\ \E i \in 1..Len(checks) :
          /\ checks[i].type = "reviews"
          /\ checks[i].score = 84
          /\ finalScore([checks EXCEPT ![i].score = 100]) > result[1].score

(***************************************************************************)
(* Properties of the weights the handlers assign.                          *)
(***************************************************************************)
\* C13: for a total review count R the reviews weight (getReviewsWeight)
\* and the weight of the reputation signal of the same run are
\* complementary: (10, 45) when R < 50, (20, 35) when 50 <= R <= 200,
\* (30, 25) when R > 200.
C13_ComplementaryWeights ==
    (/\ ~useMocks
     /\ checks # << >>
     /\ "totalReviews" \in DOMAIN checks[5].details
     /\ "riskScore" \in DOMAIN checks[4].details)
        => LET R == checks[5].details.totalReviews
           IN  <<getReviewsWeight(R), checks[4].weight>>
                  = IF R < 50 THEN <<10, 45>> ELSE IF R <= 200 THEN <<20, 35>> ELSE <<30, 25>>

(***************************************************************************)
(* Properties of the bullets.                                              *)
(***************************************************************************)
\* C14: the bullets are the first min(4, n) signals of the list ordered by
\* status (danger, warning, unknown, safe) and then by the priority
\* malware-filter, domain-age, certificate, reviews, reputation,
\* heuristics; each bullet has the signal's message as text and the icon
\* check for safe, danger for danger, warning for warning and unknown.
C14_Bullets ==
    result # << >> =>
        LET rank(c) ==
                100 * (CASE c.status = "danger" -> 0 [] c.status = "warning" -> 1
                         [] c.status = "unknown" -> 2 [] c.status = "safe" -> 3)
                + (CASE c.type = "safe-browsing" -> 1 [] c.type = "whois" -> 2
                     [] c.type = "ssl" -> 3 [] c.type = "reviews" -> 4
                     [] c.type = "ipqs" -> 5 [] c.type = "heuristics" -> 6)
            place(i) == 1 + Cardinality({j \in 1..Len(checks) : rank(checks[j]) < rank(checks[i])})
            icon(c) == CASE c.status = "safe" -> "check" [] c.status = "danger" -> "danger"
                         [] OTHER -> "warning"
            bullets == result[1].bullets
        IN  /\ Len(bullets) = IF Len(checks) < 4 THEN Len(checks) ELSE 4
            /\ \A i \in 1..Len(checks) :
                  place(i) <= 4 =>
                      bullets[place(i)] = [icon |-> icon(checks[i]), text |-> checks[i].message]

\* six signals of which the reviews and the reputation signal, both
\* warnings, take the third and fourth bullet in that order, after two
\* dangers
C14_Witness ==
    /\ result # << >>
    /\ Len(checks) = 6
    /\ Len(result[1].bullets) = 4
    /\ result[1].bullets[1].icon = "danger"
    /\ result[1].bullets[2].icon = "danger"
    /\ checks[4].status = "warning"
    /\ checks[5].status = "warning"
    /\ result[1].bullets[3] = [icon |-> "warning", text |-> checks[5].message]
    /\ result[1].bullets[4] = [icon |-> "warning", text |-> checks[4].message]

\* C15: when the safe-browsing signal reports phishing with status danger,
\* the result has score 0 and level danger and its first bullet carries the
\* safe-browsing signal's message, whatever the other signals are.
C15_PhishingScenario ==
    result # << >> =>
        \A i \in 1..Len(checks) :
            (/\ checks[i].type = "safe-browsing"
             /\ checks[i].status = "danger"
             /\ "isPhishing" \in DOMAIN checks[i].details
             /\ checks[i].details.isPhishing)
                => /\ result[1].score = 0
                   /\ result[1].level = "danger"
                   /\ result[1].bullets[1] = [icon |-> "danger", text |-> checks[i].message]

\* phishing reported beside other danger signals: the first bullet is still
\* the safe-browsing message
C15_Witness ==
    /\ result # << >>
    /\ Len(checks) = 6
    /\ "isPhishing" \in DOMAIN checks[1].details
    /\ checks[1].details.isPhishing
    /\ checks[2].status = "danger"
    /\ checks[3].status = "danger"
    /\ result[1].score = 0
    /\ result[1].bullets[1].text = "Attenzione: sito segnalato come pericoloso"
    /\ result[1].bullets[2].text = checks[2].message

(***************************************************************************)
(* Properties of the two caches.                                           *)
(***************************************************************************)
\* C16: cache round trip, for the aggregate cache and the signal cache:
\* immediately after set(k, v, ttl), get(k) returns v; once the age of the
\* entry exceeds its TTL (24 hours for the aggregate cache), get(k) returns
\* absent.
C16_CacheRoundTrip ==
    /\ (/\ invoked = TypeSet
        /\ cacheKey(domain) \in DOMAIN localStorage
        /\ JSONparse(localStorage[cacheKey(domain)]).timestamp = now)
          => getCachedResult(localStorage, storageMode, domain, now).cached = result
    /\ \A w \in written :
          redis[w.key].expiresAt = now \div 1000 + w.ttl
              => getCached(redis, redisMode, w.key, now \div 1000) = <<w.value>>
    /\ \A u \in StackUrls :
          LET d == extractDomain(normalizeUrl(u))
          IN  cacheKey(d) \in DOMAIN localStorage
                  => getCachedResult(localStorage, storageMode, d,
                                     JSONparse(localStorage[cacheKey(d)]).timestamp
                                         + 24 * 60 * 60 * 1000 + 1).cached = << >>
    /\ \A k \in DOMAIN redis :
          getCached(redis, redisMode, k, redis[k].expiresAt + 1) = << >>

\* C17: when the storage behind a cache is unavailable (the signal cache is
\* not configured or its calls throw; localStorage access throws), every
\* get returns absent and every set leaves the storage as it was, no error
\* reaches the caller, and each check and the whole evaluation return what
\* they return with an empty cache.
C17_UnavailablePassThrough ==
    LET emptyCacheChecks ==
            [i \in 1..NumTypes |->
                runCheck(NextValue(signalCheck(CheckTypes[i], normalizedUrl, EmptyStorage, "ok",
                                               apiKeys, CheckTypes[i] \in down, now).response),
                         CheckTypes[i]).value]
    IN  /\ errors = 0
        /\ storageMode = "unavailable" =>
              /\ localStorage = EmptyStorage
              /\ \A u \in StackUrls :
                    getCachedResult(localStorage, storageMode,
                                    extractDomain(normalizeUrl(u)), now).cached = << >>
              /\ runs > 0 => (invoked = TypeSet /\ emitted = result)
        /\ redisMode # "ok" =>
              /\ redis \in {EmptyStorage, StaleRedis}
              /\ written = {}
              /\ \A k \in DOMAIN redis : getCached(redis, redisMode, k, now \div 1000) = << >>
              /\ invoked = TypeSet => checks = emptyCacheChecks
        /\ (storageMode = "unavailable" /\ redisMode # "ok" /\ runs > 0) =>
              emitted = <<calculateScore(normalizedUrl, emptyCacheChecks,
                                         result[1].checkedAt.date)>>

C17_Witness ==
    /\ storageMode = "unavailable"
    /\ redisMode = "throws"
    /\ redis = StaleRedis
    /\ runs = 2
    /\ domain = <<"e", "b", "a", "y", ".", "i", "t">>
    /\ invoked = TypeSet
    /\ contacted = TypeSet
    /\ checks[1].status = "safe"
    /\ emitted = result

\* C18: for each signal check of type T on domain D, if the signal cache
\* holds an entry for (T, D) the check returns that entry unchanged and does
\* not call the external collaborator; otherwise it calls the collaborator,
\* stores the result it built under (T, D) and returns that result.  (With
\* an unavailable signal cache nothing is held and storing is a no-op.)
C18_HitOrMiss ==
    [][(runs' = runs + 1 /\ invoked' = TypeSet) =>
          \A i \in 1..NumTypes :
             LET T == CheckTypes[i]
                 key == getCacheKey(T, domain')
                 held == getCached(redis, redisMode, key, now \div 1000)
             IN  IF held # << >>
                 THEN checks'[i] = held[1] /\ T \notin contacted'
                 ELSE /\ T \in contacted'
                      /\ redisMode = "ok" =>
                            getCached(redis', redisMode, key, now \div 1000) = <<checks'[i]>>]_vars

\* C19: every write to the signal cache made by a check of type T uses a
\* TTL that does not exceed the policy TTL of T (domain age 30 days,
\* certificate 7 days, heuristics 30 days, malware filter 24 hours,
\* reputation 24 hours, reviews 6 hours), and uses exactly the policy TTL
\* when the stored result has status safe.
C19_TtlPolicy ==
    LET hour == 60 * 60
        day == 24 * hour
        policy == [t \in TypeSet |->
                      CASE t = "whois" -> 30 * day
                        [] t = "ssl" -> 7 * day
                        [] t = "heuristics" -> 30 * day
                        [] t = "safe-browsing" -> 24 * hour
                        [] t = "ipqs" -> 24 * hour
                        [] t = "reviews" -> 6 * hour]
    IN  \A w \in written :
           /\ w.ttl <= policy[w.type]
           /\ w.value.status = "safe" => w.ttl = policy[w.type]
           /\ redis[w.key].value = w.value
           /\ redis[w.key].expiresAt <= now \div 1000 + policy[w.type]

C19_Witness ==
    /\ Cardinality(written) = NumTypes
    /\ \E w \in written :
          w.type = "safe-browsing" /\ w.value.status = "danger" /\ w.ttl = 60 * 60
    /\ \E w \in written :
          w.type = "heuristics" /\ w.value.status = "safe" /\ w.ttl = 30 * 24 * 60 * 60
    /\ \E w \in written : w.type = "reviews" /\ w.ttl = 6 * 60 * 60

\* C20: cache-key stability.  For every signal type T and every two
\* spellings of a domain that differ only in letter case and in a leading
\* "www." label, getCacheKey(T, .) gives the same key, and check(url) uses
\* the same aggregate cache key; so the two caches hold keys of bare
\* lower-case domains only.  The spellings are those of the domain of the
\* latest check(url).
C20_CacheKeyStability ==
    LET Bare == { <<"e", "b", "a", "y", ".", "i", "t">>,
                  <<"f", "a", "k", "e", ".", "i", "t">>,
                  <<"b", "i", "t", ".", "i", "t">> }
        upperChar(c) ==
            IF \E i \in 1..Len(LowerChars) : LowerChars[i] = c
            THEN UpperChars[CHOOSE i \in 1..Len(LowerChars) : LowerChars[i] = c]
            ELSE c
        upper(s) == [i \in 1..Len(s) |-> upperChar(s[i])]
        Cased(s) == {s, upper(s)}
        Prefixes == {<<"w", "w", "w", ".">>, <<"W", "W", "W", ".">>, <<"W", "w", "w", ".">>}
        Spellings(d) == Cased(d) \cup {p \o c : p \in Prefixes, c \in Cased(d)}
    IN  /\ runs > 0 =>
              /\ domain \in Bare
              /\ \A s \in Spellings(domain) :
                    /\ \A T \in TypeSet : getCacheKey(T, s) = <<"trusty:", T, ":">> \o domain
                    /\ cacheKey(extractDomain(normalizeUrl(s))) = <<"trusty_cache_">> \o domain
        /\ DOMAIN localStorage \subseteq {<<"trusty_cache_">> \o d : d \in Bare}
        /\ DOMAIN redis \subseteq {<<"trusty:", T, ":">> \o d : T \in TypeSet, d \in Bare}

C20_Witness ==
    /\ runs = 2
    /\ reqUrl = <<"W", "W", "W", ".", "e", "B", "a", "y", ".", "i", "t">>
    /\ ticks = 0
    /\ redis # StaleRedis
    /\ invoked = {}
    /\ emitted = <<JSONparse(localStorage[
                       <<"trusty_cache_", "e", "b", "a", "y", ".", "i", "t">>]).result>>
    /\ Cardinality(DOMAIN localStorage) = 1
    /\ Cardinality(DOMAIN redis) = NumTypes
    /\ <<"trusty:", "whois", ":", "e", "b", "a", "y", ".", "i", "t">> \in DOMAIN redis

(***************************************************************************)
(* The heuristics handler on its own: the domain of the request is drawn   *)
(* from brands, decoys, look-alikes and other names; each step is one      *)
(* request, answered from the signal cache or computed and stored.         *)
(***************************************************************************)
InitHeuristics ==
    /\ LET Brands == {KNOWN_BRANDS[k] : k \in 1..Len(KNOWN_BRANDS)}
           Decoys == {<<"-", "s", "h", "o", "p">>, <<"-", "s", "t", "o", "r", "e">>,
                      <<"-", "o", "f", "f", "i", "c", "i", "a", "l">>,
                      <<"-", "i", "t", "a", "l", "i", "a">>, <<"-", "i", "t">>,
                      <<"-", "o", "u", "t", "l", "e", "t">>, <<"-", "s", "a", "l", "e">>,
                      <<"-", "o", "n", "l", "i", "n", "e">>}
           Decoyed == {<<"a", "m", "a", "z", "o", "n">>, <<"n", "i", "k", "e">>,
                       <<"t", "i", "m">>, <<"p", "o", "s", "t", "e">>}
           LookAlike(c) == CASE c = "o" -> {"0"} [] c = "i" -> {"1"} [] c = "l" -> {"1"}
                             [] c = "e" -> {"3"} [] c = "a" -> {"4"} [] c = "s" -> {"5"}
                             [] OTHER -> {}
           Others == {
               <<"a", "m", "a", "z", "0", "n">>,
               <<"a", "m", "a", "z", "o", "n", "s", "h", "o", "p">>,
               <<"n", "i", "k", "e", "o", "f", "f", "i", "c", "i", "a", "l">>,
               <<"p", "a", "y", "p", "a", "1">>,
               <<"g", "o", "o", "o", "g", "l", "e">>,
               <<"f", "a", "c", "e", "b", "o", "o", "o", "k">>,
               <<"a", "m", "a", "z", "o", "n", "s", "h", "o", "p", "-", "f", "r", "e", "e", "-", "1", "2", "3", "4", "-", "b", "c", "d", "f", "g", "-", "x", "x", "x", "x", "x", "x", "x", "x", "x", "x", "x", "x", "x", "x", "x">>,
               <<"n", "e", "g", "o", "z", "i", "o", "-", "d", "i", "-", "s", "c", "a", "r", "p", "e", "-", "o", "n", "l", "i", "n", "e">>,
               <<"i", "l", "m", "i", "g", "l", "i", "o", "r", "e", "s", "i", "t", "o", "d", "e", "l", "m", "o", "n", "d", "o", "i", "n", "t", "e", "r", "o">>,
               <<"1", "2", "3", "4", "5", "6">>, <<"x", "-", "y", "-", "z">>,
               <<"x", "k", "c", "d", "b", "r", "t", "p", "l", "m">>,
               <<"s", "c", "o", "n", "t", "o", "9", "0">>,
               <<"f", "a", "k", "e">>, <<"b", "i", "t">>,
               <<"s", "h", "o", "p", ".", "e", "x", "a", "m", "p", "l", "e">>,
               <<"n", "e", "g", "o", "z", "i", "o">>
                     }
           Labels == Brands
                       \cup {b \o s : b \in Decoyed, s \in Decoys}
                       \cup UNION {UNION {{[b EXCEPT ![i] = c] : c \in LookAlike(b[i])} :
                                             i \in 1..Len(b)} : b \in Brands}
                       \cup Others
           Tlds == {<<"c", "o", "m">>, <<"x", "y", "z">>}
       IN  domain \in {l \o <<".">> \o t : l \in Labels, t \in Tlds}
                         \cup {<<"e", "b", "a", "y", ".", "i", "t">>, <<"l", "o", "c", "a", "l">>}
    /\ redis = EmptyStorage
    /\ redisMode \in {"ok", "unconfigured"}
    /\ checks = << >>
    /\ runs = 0
    /\ now = 0
    /\ result = << >>
    /\ useMocks = FALSE
    /\ failing = {}
    /\ storageMode = "ok"
    /\ localStorage = EmptyStorage
    /\ ticks = 0
    /\ pc = "idle"
    /\ reqUrl = << >>
    /\ normalizedUrl = << >>
    /\ settled = [i \in 1..NumTypes |-> Pending]
    /\ emitted = << >>
    /\ errors = 0
    /\ invoked = {}
    /\ scoreCalls = 0
    /\ apiKeys = TRUE
    /\ down = {}
    /\ contacted = {}
    /\ written = {}

\* one POST to the heuristics handler: the cached result, or the analysis,
\* which is then stored; checks collects the responses
Analyse ==
    /\ runs < MaxRuns
    /\ runs' = runs + 1
    /\ LET key == getCacheKey("heuristics", domain)
           cached == getCached(redis, redisMode, key, now \div 1000)
       IN  IF cached # << >>
           THEN checks' = Append(checks, cached[1]) /\ redis' = redis
           ELSE \E fresh \in {heuristicsAnalysis(domain)} :
                   /\ checks' = Append(checks, fresh)
                   /\ redis' = setCache(redis, redisMode, key, fresh,
                                        CACHE_TTL("heuristics"), now \div 1000)
    /\ UNCHANGED <<result, useMocks, failing, storageMode, localStorage, now, ticks, pc,
                   reqUrl, normalizedUrl, domain, settled, emitted, errors, invoked,
                   scoreCalls, redisMode, apiKeys, down, contacted, written>>

NextHeuristics == Analyse

SpecHeuristics == InitHeuristics /\ [][NextHeuristics]_vars

(***************************************************************************)
(* Properties of the orchestration and of the override rules.              *)
(***************************************************************************)
\* C21: on a cache-miss run, whatever the order in which the six checks
\* complete, calculateScore is called exactly once, only after all six have
\* settled, with the six results in the fixed order of the check list; the
\* result does not depend on the order of completion.
C21_ScoreOnceInFixedOrder ==
    /\ scoreCalls <= 1
    /\ pc = "waiting" => (scoreCalls = 0 /\ emitted = << >>)
    /\ scoreCalls = 1 =>
          /\ \A i \in 1..NumTypes :
                /\ settled[i] # Pending
                /\ checks[i] = settled[i]
                /\ checks[i].type = CheckTypes[i]
          /\ Len(checks) = NumTypes
          /\ emitted = <<calculateScore(normalizedUrl, checks, emitted[1].checkedAt.date)>>
    /\ (pc = "idle" /\ invoked = TypeSet) => scoreCalls = 1
    /\ (scoreCalls = 1 /\ ~useMocks) =>
          checks = [i \in 1..NumTypes |->
                       IF CheckTypes[i] \in failing THEN createErrorResult(CheckTypes[i])
                       ELSE realCheck(CheckTypes[i], domain)]

C21_Witness ==
    /\ ~useMocks
    /\ failing = {"whois", "reviews"}
    /\ pc = "idle"
    /\ invoked = TypeSet
    /\ scoreCalls = 1
    /\ checks[1].type = "safe-browsing"
    /\ checks[2].status = "unknown"
    /\ checks[6].type = "heuristics"
    /\ emitted = result

\* C25: when the malware override does not fire, the overrides compose in
\* the order young-domain cap, crypto-only penalty, insufficient-reviews cap
\* on the running value: with blend B, B2 = min(B, 50) if the young-domain
\* rule is active, else B; B3 = max(0, B2 - 20) if the crypto-only rule is
\* active, else B2; the final score is min(B3, 60) if the
\* insufficient-reviews rule is active, else B3.  B is the rounded blend:
\* the thresholds are integers, so rounding first gives the same score.
C25_OverrideOrder ==
    (result # << >> /\ ~malwareOverride(checks)) =>
        LET B == MathRound(blendScore(checks))
            B2 == IF youngDomainCap(checks) THEN (IF B < 50 THEN B ELSE 50) ELSE B
            B3 == IF cryptoPenalty(checks) THEN (IF B2 - 20 > 0 THEN B2 - 20 ELSE 0) ELSE B2
            final == IF insufficientReviewsCap(checks) THEN (IF B3 < 60 THEN B3 ELSE 60) ELSE B3
        IN  result[1].score = final

\* all three rules active on a blend above 50: the score is 30
C25_Witness ==
    /\ result # << >>
    /\ ~malwareOverride(checks)
    /\ youngDomainCap(checks)
    /\ cryptoPenalty(checks)
    /\ insufficientReviewsCap(checks)
    /\ MathRound(blendScore(checks)) > 70
    /\ result[1].score = 30

\* C27: a domain-age result whose age is unavailable (details.domainAge is
\* null) never triggers the young-domain cap: the score is the one the
\* other two rules give on the blend.
C27_UnknownAgeNotCapped ==
    (/\ result # << >>
     /\ ~malwareOverride(checks)
     /\ Found(checks, "whois")
     /\ "domainAge" \in DOMAIN Find(checks, "whois").details
     /\ Find(checks, "whois").details.domainAge = null) =>
        LET B == MathRound(blendScore(checks))
            B3 == IF cryptoPenalty(checks) THEN (IF B - 20 > 0 THEN B - 20 ELSE 0) ELSE B
            final == IF insufficientReviewsCap(checks) THEN (IF B3 < 60 THEN B3 ELSE 60) ELSE B3
        IN  result[1].score = final

\* C29: the placeholder that the orchestrator substitutes for a failed check
\* (details = {error: true}) activates no override rule: in the
\* malware-filter, domain-age, heuristics or reviews position it triggers
\* neither the malware zeroing, the young-domain cap, the crypto-only
\* penalty nor the insufficient-reviews cap; a list in which all of these
\* positions hold placeholders gets the rounded blend as its score.
C29_PlaceholderTriggersNoRule ==
    LET Ruled == {"safe-browsing", "whois", "heuristics", "reviews"}
        placeholder(t) == Found(checks, t) /\ Find(checks, t) = createErrorResult(t)
    IN  /\ placeholder("safe-browsing") => ~malwareOverride(checks)
        /\ placeholder("whois") => ~youngDomainCap(checks)
        /\ placeholder("heuristics") => ~cryptoPenalty(checks)
        /\ placeholder("reviews") => ~insufficientReviewsCap(checks)
        /\ (result # << >> /\ \A t \in Ruled : placeholder(t)) =>
              result[1].score = MathRound(blendScore(checks))

C29_Witness ==
    /\ result # << >>
    /\ Len(checks) = NumTypes
    /\ \A t \in {"safe-browsing", "whois", "heuristics", "reviews"} :
          Find(checks, t).details = [error |-> TRUE]
    /\ Find(checks, "ssl").status = "safe"
    /\ result[1].score > 60
    /\ result[1].score = MathRound(blendScore(checks))

\* C30: serving a result from the aggregate cache leaves the cache
\* unchanged: a hit writes nothing and keeps the stored timestamp, which is
\* the time of the run that computed the result; so a call is a hit exactly
\* while no more than 24 hours have passed since that run, however many
\* hits lie in between.
C30_HitLeavesCacheUnchanged ==
    [][runs' = runs + 1 =>
          LET key == cacheKey(domain')
              fresh == /\ storageMode # "unavailable"
                       /\ key \in DOMAIN localStorage
                       /\ now - JSONparse(localStorage[key]).timestamp <= 24 * 60 * 60 * 1000
          IN  /\ fresh <=> invoked' = {}
              /\ fresh =>
                    /\ localStorage' = localStorage
                    /\ emitted' = <<JSONparse(localStorage[key]).result>>
                    /\ JSONparse(localStorage'[key]).timestamp = emitted'[1].checkedAt.isoString
    ]_vars

\* a hit on an entry that is exactly 24 hours old
C30_Witness ==
    /\ runs = 2
    /\ ticks = 1
    /\ now = 24 * 60 * 60 * 1000
    /\ invoked = {}
    /\ cacheKey(domain) \in DOMAIN localStorage
    /\ JSONparse(localStorage[cacheKey(domain)]).timestamp = 0
    /\ emitted = <<JSONparse(localStorage[cacheKey(domain)]).result>>

\* C28: a signal check whose external collaborator call failed writes no
\* result for the domain to the signal cache, so that the next request for
\* the domain contacts the collaborator again.
C28_FailuresNotCached ==
    \A T \in down :
       T \in contacted =>
          /\ \A w \in written : w.type # T
          /\ getCached(redis, redisMode, getCacheKey(T, domain), now \div 1000) = << >>

C23_BrandIsNotSquatting ==
    \A i \in 1..Len(checks) :
       LET sub == checks[i].details.checks
           label == getDomainWithoutTld(domain)
       IN  /\ domain = <<"a", "m", "a", "z", "0", "n", ".", "c", "o", "m">>
                => /\ sub.typosquatting.penalty > 0
                   /\ ~sub.typosquatting.passed
                   /\ contains(sub.typosquatting.message, <<"a", "m", "a", "z", "o", "n">>)
                   /\ "dangers" \in DOMAIN checks[i].details
                   /\ checks[i].details.dangers[1] = sub.typosquatting.message
                   /\ checks[i].status = "danger"
           /\ (\E k \in 1..Len(KNOWN_BRANDS) : KNOWN_BRANDS[k] = label)
                => /\ sub.typosquatting.penalty = 0
                   /\ sub.typosquatting.passed
                   /\ sub.knownSite.penalty = 0 - 20

\* a brand that contains another brand ("immobiliare" contains "obi") was
\* analysed
C23_Witness ==
    /\ Len(checks) >= 1
    /\ getDomainWithoutTld(domain) = <<"i", "m", "m", "o", "b", "i", "l", "i", "a", "r", "e">>
    /\ checks[1].details.checks.typosquatting.penalty = 0
    /\ checks[1].details.checks.knownSite.penalty = 0 - 20

\* C24: a label made of a brand followed by a suffix of the decoy list
\* ("-shop", "-store", "-official", ...) gets typosquatting penalty 30 with
\* severity warning, unless an earlier rule matched (penalty 50, 40 or 25)
C24_DecoySuffixPenalised ==
    \A i \in 1..Len(checks) :
       LET sub == checks[i].details.checks
           label == getDomainWithoutTld(domain)
           Decoys == {<<"-", "s", "h", "o", "p">>, <<"-", "s", "t", "o", "r", "e">>,
                      <<"-", "o", "f", "f", "i", "c", "i", "a", "l">>,
                      <<"-", "i", "t", "a", "l", "i", "a">>, <<"-", "i", "t">>,
                      <<"-", "o", "u", "t", "l", "e", "t">>, <<"-", "s", "a", "l", "e">>,
                      <<"-", "o", "n", "l", "i", "n", "e">>}
       IN  (\E k \in 1..Len(KNOWN_BRANDS), S \in Decoys : label = KNOWN_BRANDS[k] \o S)
              => \/ sub.typosquatting.penalty \in {50, 40, 25}
                 \/ /\ sub.typosquatting.penalty = 30
                    /\ "warnings" \in DOMAIN checks[i].details
                    /\ \E w \in 1..Len(checks[i].details.warnings) :
                          checks[i].details.warnings[w] = sub.typosquatting.message

\* C26: a label that differs from a brand only by look-alike characters
\* (0 for o, 1 for i or l, 3 for e, 4 for a, 5 for s) gets typosquatting
\* penalty 50 with severity danger, and the message names the brand
C26_LookAlikePenalised ==
    \A i \in 1..Len(checks) :
       LET sub == checks[i].details.checks
           label == getDomainWithoutTld(domain)
           LookAlike(c) == CASE c = "o" -> {"0"} [] c = "i" -> {"1"} [] c = "l" -> {"1"}
                             [] c = "e" -> {"3"} [] c = "a" -> {"4"} [] c = "s" -> {"5"}
                             [] OTHER -> {}
       IN  \A k \in 1..Len(KNOWN_BRANDS) :
              LET brand == KNOWN_BRANDS[k]
              IN  (/\ label # brand
                   /\ Len(label) = Len(brand)
                   /\ \A p \in 1..Len(brand) :
                         label[p] = brand[p] \/ label[p] \in LookAlike(brand[p]))
                     => /\ sub.typosquatting.penalty = 50
                        /\ contains(sub.typosquatting.message, brand)
                        /\ "dangers" \in DOMAIN checks[i].details
                        /\ checks[i].details.dangers[1] = sub.typosquatting.message

=============================================================================
